---------------------------- MODULE Spec2Model ----------------------------
(***************************************************************************)
(* Document discovery and deduplication of bill-lens: the URL normalizer,  *)
(* the discovery orchestrator's persistence step and the extraction        *)
(* pipeline, as state machines over the catalog store.                     *)
(*                                                                         *)
(* A URL string is a sequence of tokens.  "/", "?", "&", "=" and "#" are   *)
(* the single characters; a scheme ("http:"), a host ("h"), a path segment *)
(* ("a", "a.pdf"), a parameter name or value are atomic tokens standing    *)
(* for runs of ordinary characters.  endsWith('/') and slice(0, -1) act on *)
(* the last token, which is exact because "/" is one character.            *)
(***************************************************************************)
EXTENDS Integers, Sequences, FiniteSets, TLC

VARIABLES
    docs,       \* collection epsteinDocuments, in document-id order
    aliases,    \* collection urlAliases
    runs,       \* collection discoveryRuns, in creation order
    now,        \* logical clock: the value new Date() returns in the next call
    last,       \* the last top-level call: its arguments, remote answers, result
    npc,        \* normalizer harness: "idle" | "input" | "once" | "twice"
    nA,         \* normalizer harness: a raw URL
    nB,         \* normalizer harness: a variant of nA
    nKind,      \* normalizer harness: how nB differs from nA
    nOutA,      \* normalizeUrl(nA), then normalizeUrl of that
    nOutB,      \* normalizeUrl(nB)
    nPrev,      \* the value nOutA held before normalizeUrl was applied to it again
    surfaced,   \* history: the (canonical URL, source, sourceId) triples that
                \* discoverers have returned to runDiscovery so far
    spc,        \* status harness: "idle" | "input" | "done"
    sIn,        \* status harness: an extraction outcome
    sOut,       \* status harness: the quality and status decided for sIn
    epc,        \* EFTA inference harness: "idle" | "in" | "out"
    eIn,        \* EFTA inference harness: what the hub crawler met
    eOut,       \* EFTA inference harness: what it inferred and returned
    inflight,   \* the calls in progress, each with its local variables
    tasks       \* collection taskQueue, in creation order

vars == <<docs, aliases, runs, now, last, surfaced,
          npc, nA, nB, nKind, nOutA, nOutB, nPrev, spc, sIn, sOut,
          epc, eIn, eOut, inflight, tasks>>
catalogVars == <<docs, aliases, runs, now, last, surfaced>>
normVars == <<npc, nA, nB, nKind, nOutA, nOutB, nPrev>>
statusVars == <<spc, sIn, sOut>>
eftaVars == <<epc, eIn, eOut>>

\* null of a string-valued field (an ETag, a content type); a null URL, hash or
\* lineage is the empty sequence, which no stored value of those fields equals
NULL == "null"

-----------------------------------------------------------------------------
(* Sequence helpers *)

Last(s) == s[Len(s)]
\* the element of a one-element set; { e(x) : x \in {v} } computes v once
Only(S) == CHOOSE x \in S : TRUE
Front(s) == SubSeq(s, 1, Len(s) - 1)

\* first index of token t in s, 0 when absent (String.prototype.indexOf + 1)
IndexIn(s, t) ==
    IF \E i \in 1..Len(s) : s[i] = t
    THEN CHOOSE i \in 1..Len(s) : s[i] = t /\ \A j \in 1..(i - 1) : s[j] # t
    ELSE 0
IndexOf(s, t) == Only({ IndexIn(v, t) : v \in { s } })

RECURSIVE SplitOn(_, _)
\* String.prototype.split(sep): the pieces between separators, empty ones kept
SplitAt(s, sep, i) ==
    IF i = 0 THEN <<s>>
    ELSE <<SubSeq(s, 1, i - 1)>> \o SplitOn(SubSeq(s, i + 1, Len(s)), sep)
SplitOn(s, sep) == Only({ SplitAt(v, sep, IndexIn(v, sep)) : v \in { s } })

-----------------------------------------------------------------------------
(* URL parsing and serialization (WHATWG URL, as used by normalizeUrl) *)

SchemeTokens == {"http:", "HTTP:", "https:", "HTTPS:"}
HostTokens == {"h", "H"}

\* ASCII lower-casing of the tokens that occur in scheme and host position
ToLower(t) ==
    CASE t = "HTTP:" -> "http:"
      [] t = "HTTPS:" -> "https:"
      [] t = "H" -> "h"
      [] OTHER -> t

\* new URL(raw) succeeds: an absolute special-scheme URL with an authority
WellFormed(raw) ==
    /\ Len(raw) >= 4
    /\ raw[1] \in SchemeTokens
    /\ raw[2] = "/" /\ raw[3] = "/"
    /\ raw[4] \in HostTokens
    /\ (Len(raw) > 4 => raw[5] \in {"/", "?", "#"})

\* one name=value piece of a query string; names and values are single tokens
ParsePiece(piece) ==
    LET e == IndexOf(piece, "=")
        name == IF e = 1 THEN "" ELSE piece[1]
        value == IF e = 0 \/ e = Len(piece) THEN "" ELSE piece[e + 1]
    IN  <<name, value>>

RECURSIVE ParsePieces(_)
ParsePieces(pieces) ==
    IF pieces = <<>> THEN <<>>
    ELSE (IF pieces[1] = <<>> THEN <<>> ELSE <<ParsePiece(pieces[1])>>)
         \o ParsePieces(Tail(pieces))

\* application/x-www-form-urlencoded parsing into the searchParams list
ParseQuery(q) == IF q = <<>> THEN <<>> ELSE ParsePieces(SplitOn(q, "&"))

\* the part of s before the first sep, and the part after it (<<>> if none)
BeforeIn(s, sep) == IF IndexOf(s, sep) = 0 THEN s ELSE SubSeq(s, 1, IndexOf(s, sep) - 1)
AfterIn(s, sep) == IF IndexOf(s, sep) = 0 THEN <<>> ELSE SubSeq(s, IndexOf(s, sep) + 1, Len(s))
Before(s, sep) == Only({ BeforeIn(v, sep) : v \in { s } })
After(s, sep) == Only({ AfterIn(v, sep) : v \in { s } })

\* an empty path of a special URL is "/"
PathOrRoot(path) == IF path = <<>> THEN <<"/">> ELSE path

\* new URL(raw): scheme and host lower-cased; rest is what follows the host
ParseRest(raw, rest) ==
    [ protocol |-> ToLower(raw[1]),
      hostname |-> ToLower(raw[4]),
      pathname |-> PathOrRoot(Before(Before(rest, "#"), "?")),
      searchParams |-> ParseQuery(After(Before(rest, "#"), "?")),
      hash |-> After(rest, "#") ]

ParseUrl(raw) == Only({ ParseRest(v, SubSeq(v, 5, Len(v))) : v \in { raw } })

SerializeParam(p) ==
    (IF p[1] = "" THEN <<>> ELSE <<p[1]>>) \o <<"=">>
        \o (IF p[2] = "" THEN <<>> ELSE <<p[2]>>)

RECURSIVE SerializeParams(_)
SerializeParams(ps) ==
    IF ps = <<>> THEN <<>>
    ELSE IF Len(ps) = 1 THEN SerializeParam(ps[1])
    ELSE SerializeParam(ps[1]) \o <<"&">> \o SerializeParams(Tail(ps))

\* url.toString(); an empty searchParams list serializes to no "?" at all
UrlToString(url) ==
    <<url.protocol, "/", "/", url.hostname>> \o url.pathname
        \o (IF url.searchParams = <<>> THEN <<>>
            ELSE <<"?">> \o SerializeParams(url.searchParams))
        \o (IF url.hash = <<>> THEN <<>> ELSE <<"#">> \o url.hash)

-----------------------------------------------------------------------------
(* normalizeUrl *)

TRACKING_PARAMS ==
    { "utm_source", "utm_medium", "utm_campaign", "utm_term", "utm_content",
      "fbclid", "gclid", "msclkid", "ref", "source", "mc_cid", "mc_eid" }

\* code-unit order of the parameter names that occur in the model
KeyRank(k) ==
    CASE k = "" -> 0
      [] k = "ref" -> 1
      [] k = "utm_source" -> 2
      [] k = "x" -> 3
      [] k = "y" -> 4
      [] OTHER -> 5

\* url.searchParams.delete(param) for every tracking parameter
DeleteTracking(ps) == SelectSeq(ps, LAMBDA p : p[1] \notin TRACKING_PARAMS)

RECURSIVE InsertByKey(_, _)
\* insert p after every entry whose name is <= p's: keeps equal names in order
InsertByKey(sorted, p) ==
    IF sorted = <<>> THEN <<p>>
    ELSE IF KeyRank(sorted[1][1]) <= KeyRank(p[1])
         THEN <<sorted[1]>> \o InsertByKey(Tail(sorted), p)
         ELSE <<p>> \o sorted

RECURSIVE SortParams(_)
\* url.searchParams.sort(): stable, by name only
SortParams(ps) ==
    IF ps = <<>> THEN <<>>
    ELSE InsertByKey(SortParams(Front(ps)), Last(ps))

\* result.endsWith('/') && url.pathname !== '/' ? result.slice(0, -1) : result
DropTrailingSlash(result, pathname) ==
    IF Last(result) = "/" /\ pathname # <<"/">> THEN Front(result) ELSE result

\* the URL object after the assignments to protocol, hostname, searchParams, hash
Rewritten(parsed) ==
    [ parsed EXCEPT
        !.protocol = "https:",
        !.hostname = ToLower(parsed.hostname),
        !.searchParams = SortParams(DeleteTracking(parsed.searchParams)),
        !.hash = <<>> ]

\* the try block of normalizeUrl on the parsed URL
Serialized(parsed) == Only({ UrlToString(url) : url \in { Rewritten(parsed) } })
Canonical(parsed) ==
    Only({ DropTrailingSlash(result, parsed.pathname) : result \in { Serialized(parsed) } })
Normalized(rawUrl) ==
    IF ~WellFormed(rawUrl) THEN rawUrl
    ELSE Only({ Canonical(parsed) : parsed \in { ParseUrl(rawUrl) } })

normalizeUrl(rawUrl) == Only({ Normalized(v) : v \in { rawUrl } })

-----------------------------------------------------------------------------
(* The catalog store: epsteinDocuments *)

\* null of a numeric field (pageCount, lengthChars, extractionQuality)
NullNum == -1
\* null of a timestamp field; the clock starts after it
NoTime == 0

\* data[f] || dflt of create()
Default(data, f, dflt) == IF f \in DOMAIN data THEN data[f] ELSE dflt

\* the first of the indices hits, 0 when the query is empty.  A
\* where(...).limit(1) query returns the match with the least document id;
\* a collection is kept in document-id order.
FirstIn(hits) ==
    IF hits = {} THEN 0 ELSE CHOOSE i \in hits : \A j \in hits : i <= j
FirstOf(hits) == Only({ FirstIn(h) : h \in { hits } })

findBySourceUrl(ds, sourceUrl) ==
    FirstOf({ i \in 1..Len(ds) : ds[i].sourceUrl = sourceUrl })

\* snapshot.empty ? the second query : the first hit
OrElse(hit, other) == IF hit # 0 THEN hit ELSE other

findByCanonicalUrlOrSourceUrl(ds, canonicalUrl, sourceUrl) ==
    OrElse(FirstOf({ i \in 1..Len(ds) : ds[i].canonicalUrl = canonicalUrl }),
           findBySourceUrl(ds, sourceUrl))

\* the document create() writes.  seq is the number of documents created so
\* far: the id field names the document and gives its creation order, while
\* the position in the collection is its rank among the random generateId() keys
NewDocument(data, seq, t) ==
    [ id |-> seq + 1,
      title |-> data.title,
      sourceUrl |-> data.sourceUrl,
      canonicalUrl |-> Default(data, "canonicalUrl", <<>>),
      documentType |-> Default(data, "documentType", NULL),
      fileType |-> Default(data, "fileType", "pdf"),
      contentType |-> NULL,
      pageCount |-> NullNum,
      rawText |-> NULL,
      lengthChars |-> NullNum,
      textHash |-> <<>>,
      byteHash |-> <<>>,
      httpEtag |-> NULL,
      httpLastModified |-> NULL,
      lastFetchedAt |-> NoTime,
      extractionQuality |-> NullNum,
      ocrRequired |-> FALSE,
      discoveryLineage |-> Default(data, "discoveryLineage", <<>>),
      status |-> Default(data, "status", "pending"),
      createdAt |-> t,
      updatedAt |-> t ]

\* epsteinDocuments.create: generateId() is random, so the new document may
\* sort before or after the existing ones in document-id order (lowId)
create(ds, data, t, lowId) ==
    IF lowId THEN <<NewDocument(data, Len(ds), t)>> \o ds
    ELSE Append(ds, NewDocument(data, Len(ds), t))

\* the fields of data overwrite those of the stored document; updatedAt is stamped
Merged(d, data, t) ==
    [ f \in DOMAIN d |->
        IF f = "updatedAt" THEN t
        ELSE IF f \in DOMAIN data THEN data[f] ELSE d[f] ]

\* epsteinDocuments.update(id, data)
update(ds, id, data, t) ==
    [ i \in 1..Len(ds) |-> IF ds[i].id = id THEN Merged(ds[i], data, t) ELSE ds[i] ]

\* epsteinDocuments.upsertBySourceUrl
upsertBySourceUrl(ds, sourceUrl, updateData, createData, t, lowId) ==
    IF findBySourceUrl(ds, sourceUrl) # 0
    THEN update(ds, ds[findBySourceUrl(ds, sourceUrl)].id, updateData, t)
    ELSE create(ds, createData, t, lowId)

RECURSIVE SortById(_)
\* orderBy createdAt asc: documents are created one at a time, so creation
\* order is the order of their creation sequence numbers
SortById(ds) ==
    IF ds = <<>> THEN <<>>
    ELSE LET m == CHOOSE i \in 1..Len(ds) : \A j \in 1..Len(ds) : ds[i].id <= ds[j].id
         IN  <<ds[m]>> \o SortById(SubSeq(ds, 1, m - 1) \o SubSeq(ds, m + 1, Len(ds)))

\* epsteinDocuments.findMany({where: {status: {in}}, orderBy createdAt asc, take})
Take(hits, take) == SubSeq(hits, 1, IF Len(hits) < take THEN Len(hits) ELSE take)

findMany(ds, statuses, take) ==
    Take(SortById(SelectSeq(ds, LAMBDA d : d.status \in statuses)), take)

-----------------------------------------------------------------------------
(* The catalog store: urlAliases and discoveryRuns *)

findByAliasUrl(as, aliasUrl) == 
    FirstOf({ i \in 1..Len(as) : as[i].aliasUrl = aliasUrl })

\* urlAliases.upsert: a known alias only gets its lastSeen refreshed
upsertAlias(as, aliasUrl, data, t) ==
    IF findByAliasUrl(as, aliasUrl) # 0
    THEN [as EXCEPT ![findByAliasUrl(as, aliasUrl)].lastSeen = t]
    ELSE Append(as, [ id |-> Len(as) + 1,
                      documentId |-> data.documentId,
                      aliasUrl |-> aliasUrl,
                      discoverySource |-> data.discoverySource,
                      firstSeen |-> t,
                      lastSeen |-> t ])

\* discoveryRuns.create
createRun(rs, source, config, t) ==
    Append(rs, [ id |-> Len(rs) + 1, source |-> source, config |-> config,
                 urlsFound |-> 0, urlsNew |-> 0, urlsChanged |-> 0, errors |-> 0,
                 startedAt |-> t, completedAt |-> NoTime ])

\* discoveryRuns.update(run.id, counts and completedAt)
updateRun(rs, id, found, new, changed, errors, t) ==
    [ i \in 1..Len(rs) |->
        IF rs[i].id = id
        THEN [rs[i] EXCEPT !.urlsFound = found, !.urlsNew = new,
                           !.urlsChanged = changed, !.errors = errors,
                           !.completedAt = t]
        ELSE rs[i] ]

-----------------------------------------------------------------------------
(* Discovery orchestrator *)

\* url.includes('EFTA'): one of the path segments is an EFTA file name
EftaSegments == { "EFTA00000001.pdf" }
IncludesEFTA(url) == \E i \in 1..Len(url) : url[i] \in EftaSegments

\* byCanonical.has(canonical)
HasCanonical(acc, canonical) == \E i \in 1..Len(acc) : acc[i].canonicalUrl = canonical

\* byCanonical.set(...) without the has() test: the last item of a canonical
\* URL replaces the earlier one
DedupAddLastWins(acc, item, canonical) ==
    IF HasCanonical(acc, canonical)
    THEN [ i \in 1..Len(acc) |->
             IF acc[i].canonicalUrl = canonical
             THEN [ url |-> item.url, canonicalUrl |-> canonical,
                    title |-> item.title, fileType |-> item.fileType,
                    discoverySource |-> item.discoverySource,
                    sourceHub |-> item.sourceHub ]
             ELSE acc[i] ]
    ELSE Append(acc, [ url |-> item.url, canonicalUrl |-> canonical,
                       title |-> item.title, fileType |-> item.fileType,
                       discoverySource |-> item.discoverySource,
                       sourceHub |-> item.sourceHub ])

\* byCanonical.set(canonical, {...item, canonicalUrl}) unless it is there
DedupAdd(acc, item, canonical) ==
    IF HasCanonical(acc, canonical) THEN acc
    ELSE Append(acc, [ url |-> item.url,
                       canonicalUrl |-> canonical,
                       title |-> item.title,
                       fileType |-> item.fileType,
                       discoverySource |-> item.discoverySource,
                       sourceHub |-> item.sourceHub ])

RECURSIVE DedupInto(_, _)
\* the Map byCanonical, in insertion order: the first item of each canonical URL
DedupInto(acc, allUrls) ==
    IF allUrls = <<>> THEN acc
    ELSE DedupInto(DedupAdd(acc, allUrls[1], normalizeUrl(allUrls[1].url)), Tail(allUrls))

deduplicateUrls(allUrls) == DedupInto(<<>>, allUrls)

\* a lineage lookup that compares the two fields crosswise
LineageIdxCrossed(lineage, source, sourceId) ==
    FirstOf({ j \in 1..Len(lineage) :
                lineage[j].source = sourceId /\ lineage[j].sourceId = source })

\* lineage.find(e => e.source === ... && e.sourceId === ...)
LineageIdx(lineage, source, sourceId) ==
    FirstOf({ j \in 1..Len(lineage) :
                lineage[j].source = source /\ lineage[j].sourceId = sourceId })

\* existingEntry ? refresh its lastSeen : push a new entry
TouchAt(lineage, j, doc, t) ==
    IF j # 0 THEN [lineage EXCEPT ![j].lastSeen = t]
    ELSE Append(lineage, [ source |-> doc.discoverySource,
                           sourceId |-> doc.sourceHub,
                           firstSeen |-> t,
                           lastSeen |-> t ])

\* the lineage stored for an existing record that doc surfaced again
TouchLineage(lineage, doc, t) ==
    TouchAt(lineage, LineageIdx(lineage, doc.discoverySource, doc.sourceHub), doc, t)

\* an alias condition that compares with the stored source URL alone
NeedsAliasSourceOnly(doc, existing) == doc.url # existing.sourceUrl

\* the alias condition of persistDiscoveries
NeedsAlias(doc, existing) ==
    doc.url # existing.sourceUrl /\ doc.url # existing.canonicalUrl

documentTypeOf(doc) ==
    IF doc.fileType = "pdf"
    THEN (IF IncludesEFTA(doc.url) THEN "EFTA Disclosure" ELSE "Court Document")
    ELSE "Web Page"

\* the branch of persistDiscoveries for a URL the catalog has
PersistExisting(st, doc, existing, alias, t) ==
    [ st EXCEPT
        !.docs = update(st.docs, existing.id,
                   [ canonicalUrl |-> IF existing.canonicalUrl # <<>>
                                      THEN existing.canonicalUrl
                                      ELSE doc.canonicalUrl,
                     discoveryLineage |->
                         TouchLineage(existing.discoveryLineage, doc, t) ],
                   t),
        !.updatedCount = @ + 1,
        !.aliases = IF alias
                    THEN upsertAlias(@, doc.url,
                           [ documentId |-> existing.id,
                             discoverySource |-> doc.discoverySource ], t)
                    ELSE @,
        !.aliasCount = IF alias THEN @ + 1 ELSE @ ]

\* a create whose item is counted as updated, as the catch branch counts it
PersistNewAsUpdated(st, doc, t, lowId) ==
    [ st EXCEPT
        !.docs = create(st.docs,
                   [ title |-> doc.title,
                     sourceUrl |-> doc.url,
                     canonicalUrl |-> doc.canonicalUrl,
                     fileType |-> IF doc.fileType = "unknown" THEN "pdf"
                                  ELSE doc.fileType,
                     documentType |-> documentTypeOf(doc),
                     status |-> "pending",
                     discoveryLineage |-> << [ source |-> doc.discoverySource,
                                               sourceId |-> doc.sourceHub,
                                               firstSeen |-> t,
                                               lastSeen |-> t ] >> ],
                   t, lowId),
        !.updatedCount = @ + 1 ]

\* the branch of persistDiscoveries for a URL the catalog does not have
PersistNew(st, doc, t, lowId) ==
    [ st EXCEPT
        !.docs = create(st.docs,
                   [ title |-> doc.title,
                     sourceUrl |-> doc.url,
                     canonicalUrl |-> doc.canonicalUrl,
                     fileType |-> IF doc.fileType = "unknown" THEN "pdf"
                                  ELSE doc.fileType,
                     documentType |-> documentTypeOf(doc),
                     status |-> "pending",
                     discoveryLineage |-> << [ source |-> doc.discoverySource,
                                               sourceId |-> doc.sourceHub,
                                               firstSeen |-> t,
                                               lastSeen |-> t ] >> ],
                   t, lowId),
        !.newCount = @ + 1 ]

\* A failure of the catalog store during persistDiscoveries: the operation
\* `op` of the at-th deduplicated item rejects.  op is "lookup", "update",
\* "create" or "alias"; a fault whose operation the item does not perform has
\* no effect.
NoFault == [ at |-> 0, op |-> "none" ]
FaultOps == { "lookup", "update", "create", "alias" }

\* the operation that fails for the k-th item
FailingOp(fault, k) == IF fault.at = k THEN fault.op ELSE "none"

\* the catch around create: the item is counted as updated
CreateFailed(st) == [st EXCEPT !.updatedCount = @ + 1]

\* an exception no try block of persistDiscoveries catches
Thrown(st) == [st EXCEPT !.threw = TRUE]

\* the two branches of the loop body, i being the record the lookup returned;
\* update is outside every try block, the alias upsert and create are inside one
PersistFound(st, doc, i, failing, t, lowId) ==
    IF i # 0
    THEN IF failing = "update" THEN Thrown(st)
         ELSE PersistExisting(st, doc, st.docs[i],
                              NeedsAlias(doc, st.docs[i]) /\ failing # "alias", t)
    ELSE IF failing = "create" THEN CreateFailed(st)
         ELSE PersistNew(st, doc, t, lowId)

\* one iteration of the loop of persistDiscoveries; st carries the two
\* collections and the three counters.  The lookup is outside every try block.
PersistOne(st, doc, failing, t, lowId) ==
    IF failing = "lookup" THEN Thrown(st)
    ELSE PersistFound(st, doc,
                      findByCanonicalUrlOrSourceUrl(st.docs, doc.canonicalUrl, doc.url),
                      failing, t, lowId)

RECURSIVE PersistAll(_, _, _, _, _, _)
\* the loop from the k-th item on; an uncaught exception ends it
PersistAll(st, deduplicated, k, fault, t, lowId) ==
    IF deduplicated = <<>> \/ st.threw THEN st
    ELSE PersistAll(PersistOne(st, deduplicated[1], FailingOp(fault, k), t, lowId),
                    Tail(deduplicated), k + 1, fault, t, lowId)

persistDiscoveries(ds, as, deduplicated, fault, t, lowId) ==
    PersistAll([ docs |-> ds, aliases |-> as, threw |-> FALSE,
                 newCount |-> 0, updatedCount |-> 0, aliasCount |-> 0 ],
               deduplicated, 1, fault, t, lowId)

\* the discoverers in the order runDiscovery invokes them
DiscoverySources == <<"hub-scrape", "sitemap-parse", "ia-cdx">>

Elems(s) == { s[i] : i \in 1..Len(s) }

\* runAll || sources.includes(src)
Selected(sources, src) == "all" \in Elems(sources) \/ src \in Elems(sources)

\* a discoverer that was not invoked
NotRun == [ threw |-> FALSE, ran |-> FALSE, documents |-> <<>>, errors |-> 0 ]

\* one try block of runDiscovery: the discoverer src ended as o
GatherOne(acc, src, o) ==
    IF ~o.ran THEN acc
    ELSE IF o.threw THEN [acc EXCEPT !.totalErrors = @ + 1]
    ELSE [ acc EXCEPT
             !.allDiscovered = @ \o
                 [ i \in 1..Len(o.documents) |->
                     [ url |-> o.documents[i].url,
                       title |-> o.documents[i].title,
                       sourceHub |-> o.documents[i].sourceHub,
                       fileType |-> o.documents[i].fileType,
                       discoverySource |-> src ] ],
             !.bySource = @ \cup { <<src, Len(o.documents)>> },
             !.totalErrors = @ + o.errors ]

RECURSIVE GatherUntilThrow(_, _, _)
\* try blocks under one common try: the first exception ends the gathering
GatherUntilThrow(acc, k, outcomes) ==
    IF k > Len(DiscoverySources) THEN acc
    ELSE IF outcomes[DiscoverySources[k]].ran /\ outcomes[DiscoverySources[k]].threw
    THEN [acc EXCEPT !.totalErrors = @ + 1]
    ELSE GatherUntilThrow(
            GatherOne(acc, DiscoverySources[k], outcomes[DiscoverySources[k]]),
            k + 1, outcomes)

RECURSIVE Gather(_, _, _)
\* the three try blocks of runDiscovery, in order: acc carries allDiscovered,
\* bySource (as pairs) and totalErrors
Gather(acc, k, outcomes) ==
    IF k > Len(DiscoverySources) THEN acc
    ELSE Gather(GatherOne(acc, DiscoverySources[k], outcomes[DiscoverySources[k]]),
                k + 1, outcomes)

\* steps 5 and 6 of runDiscovery: the run record is completed, the result built;
\* an exception of persistDiscoveries leaves runDiscovery before either
Conclude(rs1, g, deduplicated, p, t) ==
    IF p.threw
    THEN [ docs |-> p.docs, aliases |-> p.aliases, runs |-> rs1,
           returned |-> FALSE, result |-> [ runId |-> Len(rs1) ] ]
    ELSE
    [ docs |-> p.docs,
      aliases |-> p.aliases,
      runs |-> updateRun(rs1, Len(rs1), Len(deduplicated), p.newCount,
                         p.updatedCount, g.totalErrors, t),
      returned |-> TRUE,
      result |-> [ runId |-> Len(rs1),
                   totalDiscovered |-> Len(deduplicated),
                   newDocuments |-> p.newCount,
                   existingUpdated |-> p.updatedCount,
                   aliasesCreated |-> p.aliasCount,
                   errors |-> g.totalErrors,
                   bySource |-> g.bySource ] ]

\* step 4 of runDiscovery on the deduplicated list
PersistAndConclude(ds, as, rs1, g, deduplicated, fault, t, lowId) ==
    Conclude(rs1, g, deduplicated,
             persistDiscoveries(ds, as, deduplicated, fault, t, lowId), t)

\* steps 3 to 6 of runDiscovery on what the discoverers gave
DedupAndPersist(ds, as, rs1, g, fault, t, lowId) ==
    PersistAndConclude(ds, as, rs1, g, deduplicateUrls(g.allDiscovered), fault, t, lowId)

\* runDiscovery(options) with the outcomes of the discoverers it invokes
runDiscovery(ds, as, rs, options, outcomes, fault, t, lowId) ==
    DedupAndPersist(ds, as, createRun(rs, options.sources, options, t),
                    Gather([ allDiscovered |-> <<>>, bySource |-> {}, totalErrors |-> 0 ],
                           1, outcomes),
                    fault, t, lowId)

-----------------------------------------------------------------------------
(* Extraction pipeline *)

\* extract.ts: characters per page below which a PDF is taken for a scan
MIN_QUALITY_THRESHOLD == 50
\* extract.ts: an extracted text must be longer than this to be indexed
MIN_TEXT_LENGTH == 50

\* The remote content.  A body is named by what its bytes are; an extracted
\* text is named by the body it came from, and TextLength is its length.
Bodies == { "pdf", "scan", "html", "png" }
NoTextPlaceholder == "[No text extracted]"

TextLength(text) ==
    CASE text = "pdf-text" -> 200
      [] text = "scan-text" -> 40
      [] text = "html-text" -> 120
      [] text = NoTextPlaceholder -> 19
      [] OTHER -> 0

\* createHash('sha256').update(buffer).digest('hex'); null is <<>>
hashBuffer(buffer) == <<"sha256", buffer>>
hashText(text) == <<"sha256", text>>

\* pdf-parse on the bytes; bytes that are no PDF make it throw, and the catch
\* returns the empty result
extractPdfText(buffer) ==
    CASE buffer = "pdf" -> [ text |-> "pdf-text", pageCount |-> 3 ]
      [] buffer = "scan" -> [ text |-> "scan-text", pageCount |-> 3 ]
      [] OTHER -> [ text |-> "", pageCount |-> 0 ]

\* cheerio on the bytes read as UTF-8
extractHtmlText(buffer) ==
    CASE buffer = "html" -> [ text |-> "html-text", title |-> "Html Title" ]
      [] OTHER -> [ text |-> "", title |-> "" ]

\* fetchWithConditional on the server's answer: what the caller gets
fetchWithConditional(answer) ==
    IF answer.status = 304 THEN "not-modified"
    ELSE IF answer.status = 403 \/ answer.status = 429 THEN "throw-rate-limited"
    ELSE IF answer.status # 200 THEN "throw-http"
    ELSE "ok"

\* contentType.includes('pdf'), contentType.includes('html') || includes('xhtml')
PdfContentTypes == { "application/pdf" }
HtmlContentTypes == { "text/html" }
\* url.toLowerCase().endsWith('.pdf'): the string ends with a file name in .pdf
PdfFileNames == { "a.pdf", "EFTA00000001.pdf", ".pdf", "report.pdf" }
EndsWithPdf(url) == url # <<>> /\ Last(url) \in PdfFileNames

isPdf(contentType, url) == contentType \in PdfContentTypes \/ EndsWithPdf(url)
isHtml(contentType) == contentType \in HtmlContentTypes

\* Math.round(x * 100) / 100 of x = textLength / pageCount, in hundredths
RoundedHundredths(textLength, pageCount) ==
    (2 * 100 * textLength + pageCount) \div (2 * pageCount)

\* a mis-stated comparison: a page of exactly the threshold counts as a scan
computeQualityInclusive(textLength, pageCount, fileType) ==
    IF fileType # "pdf" \/ pageCount = 0
    THEN [ quality |-> IF textLength > 0 THEN 100 * 100 ELSE 0, needsOcr |-> FALSE ]
    ELSE [ quality |-> RoundedHundredths(textLength, pageCount),
           needsOcr |-> textLength <= MIN_QUALITY_THRESHOLD * pageCount ]

\* computeQuality(text, pageCount, fileType); it reads only text.length.
\* quality is in hundredths; text.length / pageCount < 50 is compared exactly.
computeQuality(textLength, pageCount, fileType) ==
    IF fileType # "pdf" \/ pageCount = 0
    THEN [ quality |-> IF textLength > 0 THEN 100 * 100 ELSE 0, needsOcr |-> FALSE ]
    ELSE [ quality |-> RoundedHundredths(textLength, pageCount),
           needsOcr |-> textLength < MIN_QUALITY_THRESHOLD * pageCount ]

\* the final status of a full extraction
finalStatus(needsOcr, textLength) ==
    IF needsOcr THEN "needs_ocr"
    ELSE IF textLength > MIN_TEXT_LENGTH THEN "indexed"
    ELSE "error"

\* the PDF branch
PdfContent(r, title) ==
    [ rawText |-> r.text, pageCount |-> r.pageCount,
      extractedTitle |-> title, fileType |-> "pdf" ]

\* the HTML branch
HtmlContent(r, title) ==
    [ rawText |-> r.text, pageCount |-> 1,
      extractedTitle |-> IF r.title # "" THEN r.title ELSE title,
      fileType |-> "html" ]

\* content-type detection and text extraction of processEpsteinDocument
extractContent(buffer, contentType, url, title) ==
    IF isPdf(contentType, url) THEN PdfContent(extractPdfText(buffer), title)
    ELSE IF isHtml(contentType) THEN HtmlContent(extractHtmlText(buffer), title)
    ELSE [ rawText |-> "", pageCount |-> 0, extractedTitle |-> title, fileType |-> "pdf" ]

\* a 304 that loses the status the record had before the call
notModifiedStatusPending(existingStatus) == "pending"

\* a 304 that restores only the indexed status
notModifiedStatusIndexedOnly(existingStatus) ==
    IF existingStatus = "indexed" THEN "indexed" ELSE "pending"

\* the status a 304 restores; existingStatus is NULL when there was no record
notModifiedStatus(existingStatus) ==
    IF existingStatus = "indexed" THEN "indexed"
    ELSE IF existingStatus # NULL THEN existingStatus
    ELSE "pending"

\* a 304 update that also drops the stored validators
notModifiedUpdateClearing(existingStatus, t) ==
    [ status |-> notModifiedStatus(existingStatus), lastFetchedAt |-> t,
      httpEtag |-> NULL, httpLastModified |-> NULL ]

\* the update written on a 304
notModifiedUpdate(existingStatus, t) ==
    [ status |-> notModifiedStatus(existingStatus), lastFetchedAt |-> t ]

\* existing?.byteHash === byteHashValue && existing?.status === 'indexed'
hashMatch(ds, e, byteHashValue) ==
    e # 0 /\ ds[e].byteHash = byteHashValue /\ ds[e].status = "indexed"

\* a hash-match update that relies on the status still being indexed, although
\* the record was marked processing
hashMatchUpdateNoStatus(existing, etag, lastModified, t) ==
    [ lastFetchedAt |-> t,
      httpEtag |-> IF etag # NULL THEN etag ELSE existing.httpEtag,
      httpLastModified |-> IF lastModified # NULL THEN lastModified
                           ELSE existing.httpLastModified ]

\* the update written when the bytes are unchanged
hashMatchUpdate(existing, etag, lastModified, t) ==
    [ status |-> "indexed", lastFetchedAt |-> t,
      httpEtag |-> IF etag # NULL THEN etag ELSE existing.httpEtag,
      httpLastModified |-> IF lastModified # NULL THEN lastModified
                           ELSE existing.httpLastModified ]

\* the fields written after a full extraction that gave x, of quality q
extractionFields(x, q, url, answer, t) ==
    [ title |-> x.extractedTitle,
      rawText |-> IF x.rawText # "" THEN x.rawText ELSE NoTextPlaceholder,
      pageCount |-> x.pageCount,
      lengthChars |-> TextLength(x.rawText),
      fileType |-> x.fileType,
      contentType |-> answer.contentType,
      byteHash |-> hashBuffer(answer.body),
      textHash |-> IF x.rawText # "" THEN hashText(x.rawText) ELSE <<>>,
      httpEtag |-> answer.etag,
      httpLastModified |-> answer.lastModified,
      lastFetchedAt |-> t,
      extractionQuality |-> q.quality,
      ocrRequired |-> q.needsOcr,
      status |-> finalStatus(q.needsOcr, TextLength(x.rawText)),
      canonicalUrl |-> normalizeUrl(url) ]

extractionOf(x, url, answer, t) ==
    extractionFields(x, computeQuality(TextLength(x.rawText), x.pageCount, x.fileType),
                     url, answer, t)

\* the update written after a full extraction
extractionUpdate(url, title, answer, t) ==
    extractionOf(extractContent(answer.body, answer.contentType, url, title),
                 url, answer, t)

\* the catch block of processEpsteinDocument, and the same block with an update
\* in place of the upsert
CatchErrorUpdateOnly(ds, url, title, t, lowId) ==
    IF findBySourceUrl(ds, url) # 0
    THEN update(ds, ds[findBySourceUrl(ds, url)].id, [ status |-> "error" ], t)
    ELSE ds
CatchError(ds, url, title, t, lowId) ==
    upsertBySourceUrl(ds, url,
        [ status |-> "error" ],
        [ title |-> title, sourceUrl |-> url,
          canonicalUrl |-> normalizeUrl(url), status |-> "error" ],
        t, lowId)

\* processEpsteinDocument after the record was marked processing: ds and e are
\* the collection and the record of url before the call, docId the id of the
\* record of url in marked
processMarked(ds, e, marked, docId, fetched, url, title, answer, t) ==
    IF fetched = "not-modified"
    THEN [ docs |-> update(marked, docId,
                      notModifiedUpdate(IF e # 0 THEN ds[e].status ELSE NULL, t), t),
           outcome |-> "not-modified" ]
    ELSE IF fetched # "ok"
    THEN [ docs |-> CatchError(marked, url, title, t, FALSE), outcome |-> "failed" ]
    ELSE IF hashMatch(ds, e, hashBuffer(answer.body))
    THEN [ docs |-> update(marked, ds[e].id,
                      hashMatchUpdate(ds[e], answer.etag, answer.lastModified, t), t),
           outcome |-> "hash-match" ]
    ELSE [ docs |-> update(marked, docId, extractionUpdate(url, title, answer, t), t),
           outcome |-> "extracted" ]

processFetched(ds, marked, url, title, answer, t) ==
    processMarked(ds, findBySourceUrl(ds, url), marked,
                  marked[findBySourceUrl(marked, url)].id,
                  fetchWithConditional(answer), url, title, answer, t)

\* processEpsteinDocument(url, title) against the server's answer
processEpsteinDocument(ds, url, title, answer, t, lowId) ==
    processFetched(ds,
        upsertBySourceUrl(ds, url,
            [ status |-> "processing" ],
            [ title |-> title, sourceUrl |-> url,
              canonicalUrl |-> normalizeUrl(url),
              fileType |-> "pdf", status |-> "processing" ],
            t, lowId),
        url, title, answer, t)

\* the record of url marked processing, created when there is none
MarkProcessing(ds, url, title, t, lowId) ==
    upsertBySourceUrl(ds, url,
        [ status |-> "processing" ],
        [ title |-> title, sourceUrl |-> url,
          canonicalUrl |-> normalizeUrl(url),
          fileType |-> "pdf", status |-> "processing" ],
        t, lowId)

\* processEpsteinDocument(url, title) in which one step throws: the first
\* lookup ("lookup") or the upsert that marks the record ("mark") rejects, the
\* fetch throws on the server's answer ("fetch"), or the store rejects the
\* update that follows the fetch ("update").  The catch block then runs.
processFailing(ds, url, title, step, answer, t, lowId) ==
    CASE step \in { "lookup", "mark" } -> CatchError(ds, url, title, t, lowId)
      [] step = "fetch" -> processEpsteinDocument(ds, url, title, answer, t, lowId).docs
      [] step = "update" ->
            CatchError(MarkProcessing(ds, url, title, t, lowId), url, title, t, FALSE)

\* in place of the server's answer: the store is unreachable during the call,
\* so the first lookup rejects, the upsert of the catch block rejects as well,
\* and processEpsteinDocument throws
StoreDown ==
    [ status |-> -1, body |-> "", contentType |-> "", etag |-> NULL,
      lastModified |-> NULL ]

\* the try block of the loop of processAllPending
TryProcess(st, doc, answer, t) ==
    IF answer = StoreDown
    THEN [ docs |-> st.docs, processed |-> st.processed, errors |-> st.errors + 1,
           attempted |-> Append(st.attempted, doc.sourceUrl) ]
    ELSE [ docs |-> processEpsteinDocument(st.docs, doc.sourceUrl, doc.title,
                                           answer, t, FALSE).docs,
           processed |-> st.processed + 1, errors |-> st.errors,
           attempted |-> Append(st.attempted, doc.sourceUrl) ]

RECURSIVE ProcessUntilThrow(_, _, _, _)
\* a loop that a throwing call ends
ProcessUntilThrow(st, pending, answers, t) ==
    IF pending = <<>> \/ st.errors > 0 THEN st
    ELSE ProcessUntilThrow(TryProcess(st, pending[1], answers[1], t),
                           Tail(pending), Tail(answers), t)

RECURSIVE ProcessEach(_, _, _, _)
\* the loop of processAllPending: st carries the collection, the counters and
\* the source URLs processEpsteinDocument was called with, in call order
ProcessEach(st, pending, answers, t) ==
    IF pending = <<>> THEN st
    ELSE ProcessEach(TryProcess(st, pending[1], answers[1], t),
                     Tail(pending), Tail(answers), t)

\* the documents processAllPending pulls
PendingOf(ds, maxDocuments) == findMany(ds, {"pending", "needs_ocr"}, maxDocuments)

\* processAllPending({maxDocuments}) against one answer per pulled document
processAllPending(ds, maxDocuments, answers, t) ==
    ProcessEach([ docs |-> ds, processed |-> 0, errors |-> 0, attempted |-> <<>> ],
                PendingOf(ds, maxDocuments), answers, t)

-----------------------------------------------------------------------------
(* Harness for the normalizer: raw URLs built from components, and variants *)

MaxPath == 3        \* path segments of a generated URL
MaxParams == 2      \* query parameters of a generated URL

PathSeqs == UNION { [1..n -> {"a", ""}] : n \in 0..MaxPath }
ParamChoices ==
    { <<"x", "1">>, <<"x", "2">>, <<"y", "1">>, <<"utm_source", "1">>, <<"ref", "2">> }
ParamSeqs == UNION { [1..n -> ParamChoices] : n \in 0..MaxParams }

UrlComps ==
    { c \in [ scheme : {"http:", "https:"}, host : {"h"}, path : PathSeqs,
              hasQuery : BOOLEAN, params : ParamSeqs, frag : {<<>>, <<"f">>} ] :
        ~c.hasQuery => c.params = <<>> }

RECURSIVE PathString(_)
PathString(segs) ==
    IF segs = <<>> THEN <<>>
    ELSE <<"/">> \o (IF segs[1] = "" THEN <<>> ELSE <<segs[1]>>)
              \o PathString(Tail(segs))

Compose(c) ==
    <<c.scheme, "/", "/", c.host>> \o PathString(c.path)
        \o (IF c.hasQuery THEN <<"?">> \o SerializeParams(c.params) ELSE <<>>)
        \o (IF c.frag = <<>> THEN <<>> ELSE <<"#">> \o c.frag)

ToUpper(t) ==
    CASE t = "http:" -> "HTTP:"
      [] t = "https:" -> "HTTPS:"
      [] t = "h" -> "H"
      [] OTHER -> t

InsertAt(s, p, x) == SubSeq(s, 1, p) \o <<x>> \o SubSeq(s, p + 1, Len(s))
SwapAt(s, i) == [s EXCEPT ![i] = s[i + 1], ![i + 1] = s[i]]

\* the ways a second URL may differ from the one built from c
Kinds(c) ==
    { <<"none", 0>>, <<"schemeCase", 0>>, <<"hostCase", 0>> }
    \cup { <<"trackAdd", p>> : p \in 0..Len(c.params) }
    \cup { <<"trackVal", i>> : i \in { j \in 1..Len(c.params) : c.params[j][1] \in TRACKING_PARAMS } }
    \cup { <<"swap", i>> : i \in 1..(Len(c.params) - 1) }
    \cup (IF c.path # <<>> /\ Last(c.path) # "" THEN { <<"slash", 0>> } ELSE {})

Variant(c, kind) ==
    CASE kind[1] = "schemeCase" -> [Compose(c) EXCEPT ![1] = ToUpper(@)]
      [] kind[1] = "hostCase" -> [Compose(c) EXCEPT ![4] = ToUpper(@)]
      [] kind[1] = "trackAdd" ->
            Compose([c EXCEPT !.hasQuery = TRUE,
                              !.params = InsertAt(@, kind[2], <<"utm_source", "2">>)])
      [] kind[1] = "trackVal" ->
            Compose([c EXCEPT !.params = [@ EXCEPT ![kind[2]] = <<@[1], "3">>]])
      [] kind[1] = "swap" -> Compose([c EXCEPT !.params = SwapAt(@, kind[2])])
      [] kind[1] = "slash" -> Compose([c EXCEPT !.path = Append(@, "")])
      [] OTHER -> Compose(c)

\* strings new URL() rejects: no scheme
MalformedUrls ==
    { <<>>, <<"/", "a">>, <<"h", "/", "a", "/">>, <<"a", "?", "x", "=", "1">> }

NormIdle ==
    /\ npc = "idle" /\ nA = <<>> /\ nB = <<>> /\ nKind = <<"none", 0>>
    /\ nOutA = <<>> /\ nOutB = <<>> /\ nPrev = <<>>

\* the state after construction: empty collections
CatalogInit ==
    /\ docs = <<>> /\ aliases = <<>> /\ runs = <<>>
    /\ now = 1
    /\ last = [op |-> "none"]
    /\ surfaced = {}

NoOutcome == [ fileType |-> "pdf", pageCount |-> 0, chars |-> 0 ]
NoDecision == [ quality |-> 0, needsOcr |-> FALSE, status |-> "none" ]

StatusIdle == spc = "idle" /\ sIn = NoOutcome /\ sOut = NoDecision
EftaIdle == epc = "idle" /\ eIn = <<>> /\ eOut = <<>>
NoneInFlight == inflight = <<>> /\ tasks = <<>>

InitNorm ==
    /\ CatalogInit
    /\ EftaIdle
    /\ NoneInFlight
    /\ StatusIdle
    /\ npc = "input"
    /\ nOutA = <<>> /\ nOutB = <<>> /\ nPrev = <<>>
    /\ \/ \E c \in UrlComps : \E k \in Kinds(c) :
            nA = Compose(c) /\ nB = Variant(c, k) /\ nKind = k
       \/ \E m \in MalformedUrls :
            nA = m /\ nB = m /\ nKind = <<"none", 0>>

\* normalizeUrl applied to both raw URLs
NormalizeInputs ==
    /\ npc = "input"
    /\ nOutA' = normalizeUrl(nA)
    /\ nOutB' = normalizeUrl(nB)
    /\ npc' = "once"
    /\ UNCHANGED <<tasks, nA, nB, nKind, nPrev>>
    /\ UNCHANGED <<catalogVars, statusVars, eftaVars, inflight>>

\* normalizeUrl applied to its own output
NormalizeAgain ==
    /\ npc = "once"
    /\ nPrev' = nOutA
    /\ nOutA' = normalizeUrl(nOutA)
    /\ npc' = "twice"
    /\ UNCHANGED <<tasks, nA, nB, nKind, nOutB>>
    /\ UNCHANGED <<catalogVars, statusVars, eftaVars, inflight>>

NextNorm == NormalizeInputs \/ NormalizeAgain

SpecNorm == InitNorm /\ [][NextNorm]_vars

PathnameOf(u) == ParseUrl(u).pathname

\* C4: normalizeUrl is idempotent: applying it to its own output changes nothing,
\* for every input string, paths ending in several slashes included.
C4_Idempotent == npc = "twice" => nOutA = nPrev

\* C5: two well-formed URLs that differ only in tracking parameters, scheme case,
\* host case or the order of their query parameters (repeated names included)
\* normalize to the same string.
C5_SameCanonical ==
    (npc = "once" /\ nKind[1] \in {"schemeCase", "hostCase", "trackAdd", "trackVal", "swap"})
        => nOutA = nOutB

\* C6: for a well-formed URL whose path is not the root the canonical URL's path
\* has no trailing slash, with or without a remaining query string, so a URL and
\* its variant with a trailing slash get the same canonical URL; a root path
\* keeps its slash.
C6_TrailingSlash ==
    (npc = "once" /\ WellFormed(nA)) =>
        /\ PathnameOf(nA) # <<"/">> => Last(PathnameOf(nOutA)) # "/"
        /\ PathnameOf(nA) = <<"/">> => PathnameOf(nOutA) = <<"/">>
        /\ nKind[1] = "slash" => nOutA = nOutB


-----------------------------------------------------------------------------
(* The catalog under runDiscovery, processEpsteinDocument, processAllPending *)

MaxOps == 2         \* top-level calls in a behaviour

\* URLs of the remote site
UrlPdf == <<"https:", "/", "/", "h", "/", "a.pdf">>
UrlPdfHttp == <<"http:", "/", "/", "h", "/", "a.pdf">>
UrlPage == <<"https:", "/", "/", "h", "/", "b">>
UrlEfta == <<"https:", "/", "/", "h", "/", "EFTA00000001.pdf">>

\* last tokens with an extension of two to four characters that is neither
\* .pdf nor .htm(l), .asp, .php
OtherFileNames == { "notes.docx", "scan.jpg" }

\* classifyFileType(url): .pdf; .html and the like or no extension; another
\* extension
classifyFileType(url) ==
    IF EndsWithPdf(url) THEN "pdf"
    ELSE IF url # <<>> /\ Last(url) \in OtherFileNames THEN "unknown"
    ELSE "html"

\* a document as a discoverer returns it
Discovered(url, sourceHub) ==
    [ url |-> url, title |-> "Link", sourceHub |-> sourceHub,
      fileType |-> classifyFileType(url) ]

Threw == [ threw |-> TRUE, ran |-> TRUE, documents |-> <<>>, errors |-> 0 ]
Returned(documents, errors) ==
    [ threw |-> FALSE, ran |-> TRUE, documents |-> documents, errors |-> errors ]

\* what crawlHubPages, discoverFromSitemap and discoverFromInternetArchive may
\* give back to runDiscovery; each has removed its own duplicates
OutcomesOf(src) ==
    CASE src = "hub-scrape" ->
            { Threw,
              Returned(<<Discovered(UrlPdfHttp, "hub1")>>, 0),
              Returned(<<Discovered(UrlPdf, "hub1"), Discovered(UrlPage, "hub1")>>, 0),
              Returned(<<Discovered(UrlEfta, "hub1")>>, 0) }
      [] src = "sitemap-parse" ->
            { Threw,
              Returned(<<>>, 0),
              Returned(<<Discovered(UrlPdf, "sitemap1")>>, 0) }
      [] src = "ia-cdx" ->
            { Returned(<<>>, 1),
              Returned(<<Discovered(UrlPdfHttp, "ia-cdx:q")>>, 0) }

SourceOptions == { <<"all">>, <<"hub-scrape">> }

OutcomeChoices(sources) ==
    { o \in [ Elems(DiscoverySources) ->
                UNION { OutcomesOf(s) : s \in Elems(DiscoverySources) } \cup {NotRun} ] :
        \A s \in Elems(DiscoverySources) :
            IF Selected(sources, s) THEN o[s] \in OutcomesOf(s) ELSE o[s] = NotRun }

\* the (canonical URL, source, sourceId) triples the discoverers returned
SurfacedBy(outcomes) ==
    UNION { { <<normalizeUrl(outcomes[s].documents[i].url), s,
                outcomes[s].documents[i].sourceHub>> :
                i \in 1..Len(outcomes[s].documents) } :
            s \in { x \in Elems(DiscoverySources) :
                      outcomes[x].ran /\ ~outcomes[x].threw } }

\* the answers of the remote server to a fetch
Answer(status, body, contentType, etag, lastModified) ==
    [ status |-> status, body |-> body, contentType |-> contentType,
      etag |-> etag, lastModified |-> lastModified ]

Answers ==
    { Answer(200, "pdf", "application/pdf", "e1", NULL),
      Answer(200, "scan", "application/pdf", NULL, "m1"),
      Answer(200, "html", "text/html", NULL, NULL),
      Answer(200, "png", "image/png", NULL, NULL),
      Answer(304, "", "", NULL, NULL),
      Answer(403, "", "", NULL, NULL),
      Answer(404, "", "", NULL, NULL) }

BatchAnswers ==
    { Answer(200, "pdf", "application/pdf", "e1", NULL),
      Answer(304, "", "", NULL, NULL),
      Answer(403, "", "", NULL, NULL) }

ProcessUrls == { UrlPdf, UrlPdfHttp, UrlPage }
Titles == { "T" }
TakeOptions == { 1, 2 }

Init ==
    /\ CatalogInit
    /\ EftaIdle
    /\ NoneInFlight
    /\ NormIdle
    /\ StatusIdle

\* the state after runDiscovery(options) ended as r: it returned r.result, or
\* (r.returned false) it rejected with the exception of the store
AfterDiscovery(options, outcomes, fault, r) ==
    /\ docs' = r.docs
    /\ aliases' = r.aliases
    /\ runs' = r.runs
    /\ surfaced' = surfaced \cup SurfacedBy(outcomes)
    /\ last' = [ op |-> "runDiscovery", options |-> options,
                 outcomes |-> outcomes, fault |-> fault,
                 returned |-> r.returned, result |-> r.result,
                 repeats |-> /\ last.op = "runDiscovery"
                             /\ last.options = options
                             /\ last.outcomes = outcomes
                             /\ last.fault = fault ]

RunDiscovery ==
    /\ now <= MaxOps
    /\ \E sources \in SourceOptions, lowId \in BOOLEAN :
         \E outcomes \in OutcomeChoices(sources) :
            AfterDiscovery([ sources |-> sources ], outcomes, NoFault,
                runDiscovery(docs, aliases, runs, [ sources |-> sources ],
                             outcomes, NoFault, now, lowId))
    /\ now' = now + 1
    /\ UNCHANGED <<tasks, normVars, statusVars, eftaVars, inflight>>

\* the state after processEpsteinDocument(url, title) returned r
AfterProcess(url, title, answer, r) ==
    /\ docs' = r.docs
    /\ last' = [ op |-> "processEpsteinDocument", url |-> url, title |-> title,
                 answer |-> answer, outcome |-> r.outcome,
                 repeats |-> /\ last.op = "processEpsteinDocument"
                             /\ last.url = url /\ last.title = title
                             /\ (last.answer = answer \/ answer.status = 304) ]

ProcessEpsteinDocument ==
    /\ now <= MaxOps
    /\ \E url \in ProcessUrls, title \in Titles, answer \in Answers, lowId \in BOOLEAN :
         AfterProcess(url, title, answer,
                      processEpsteinDocument(docs, url, title, answer, now, lowId))
    /\ now' = now + 1
    /\ UNCHANGED <<tasks, aliases, runs, surfaced, normVars, statusVars, eftaVars, inflight>>

\* the state after processAllPending returned r, having pulled `pulled` documents
AfterBatch(pending, answers, r) ==
    /\ docs' = r.docs
    /\ last' = [ op |-> "processAllPending", pulled |-> Len(pending),
                 pulledDocs |-> pending, answers |-> answers,
                 attempted |-> r.attempted,
                 processed |-> r.processed, errors |-> r.errors ]

ProcessAllPending ==
    /\ now <= MaxOps
    /\ \E maxDocuments \in TakeOptions :
         \E answers \in [ 1..Len(PendingOf(docs, maxDocuments)) -> BatchAnswers ] :
            AfterBatch(PendingOf(docs, maxDocuments), answers,
                       processAllPending(docs, maxDocuments, answers, now))
    /\ now' = now + 1
    /\ UNCHANGED <<tasks, aliases, runs, surfaced, normVars, statusVars, eftaVars, inflight>>

Next == RunDiscovery \/ ProcessEpsteinDocument \/ ProcessAllPending

Spec == Init /\ [][Next]_vars

-----------------------------------------------------------------------------
(* The status decision on every extraction outcome *)

MaxPages == 3       \* pages of an extracted document
MaxChars == 200     \* characters of an extracted text

ExtractionOutcomes ==
    [ fileType : {"pdf", "html"}, pageCount : 0..MaxPages, chars : 0..MaxChars ]

InitStatus ==
    /\ CatalogInit
    /\ EftaIdle
    /\ NoneInFlight
    /\ NormIdle
    /\ spc = "input"
    /\ sIn \in ExtractionOutcomes
    /\ sOut = NoDecision

\* the quality check and the status decision of processEpsteinDocument on sIn
Decision(q, chars) ==
    [ quality |-> q.quality, needsOcr |-> q.needsOcr,
      status |-> finalStatus(q.needsOcr, chars) ]

DecideStatus ==
    /\ spc = "input"
    /\ sOut' = Decision(computeQuality(sIn.chars, sIn.pageCount, sIn.fileType), sIn.chars)
    /\ spc' = "done"
    /\ UNCHANGED <<tasks, sIn, catalogVars, normVars, eftaVars, inflight>>

NextStatus == DecideStatus

SpecStatus == InitStatus /\ [][NextStatus]_vars

-----------------------------------------------------------------------------
(* Properties of the catalog *)

DocIdx == 1..Len(docs)
ById(ds, id) == ds[CHOOSE i \in 1..Len(ds) : ds[i].id = id]
HasId(ds, id) == \E i \in 1..Len(ds) : ds[i].id = id

\* C1: no two records have the same non-null canonicalUrl, in every state
\* reachable by runDiscovery, processEpsteinDocument and processAllPending calls.
C1_UniqueCanonical ==
    \A i, j \in DocIdx :
        (i # j /\ docs[i].canonicalUrl # <<>>) => docs[i].canonicalUrl # docs[j].canonicalUrl

\* a record is as it was, up to the fields in free
SameExcept(before, after, free) ==
    \A f \in DOMAIN before : f \in free \/ after[f] = before[f]

\* a lineage is as it was, up to the lastSeen of its entries
SameLineage(before, after) ==
    /\ Len(after) = Len(before)
    /\ \A k \in 1..Len(before) : SameExcept(before[k], after[k], {"lastSeen"})

\* the second of two identical discovery runs created nothing and changed
\* nothing but lastSeen values (updatedAt is the store's own stamp)
SecondRunQuiet ==
    /\ last'.result.newDocuments = 0
    /\ runs'[Len(runs')].urlsNew = 0
    /\ Len(docs') = Len(docs)
    /\ \A i \in DocIdx :
        /\ HasId(docs', docs[i].id)
        /\ SameExcept(docs[i], ById(docs', docs[i].id), {"discoveryLineage", "updatedAt"})
        /\ SameLineage(docs[i].discoveryLineage, ById(docs', docs[i].id).discoveryLineage)
    /\ Len(aliases') = Len(aliases)
    /\ \A i \in 1..Len(aliases) : SameExcept(aliases[i], aliases'[i], {"lastSeen"})

\* C2: when runDiscovery runs twice in succession with the same options and the
\* same discoverer outputs, the second run reports no new document, creates no
\* record, adds no lineage entry and changes only lastSeen values.
C2_SecondRunQuiet ==
    [][ (/\ last.op = "runDiscovery"
         /\ last'.op = "runDiscovery"
         /\ last'.options = last.options
         /\ last'.outcomes = last.outcomes) => SecondRunQuiet ]_vars

\* a second identical run that found records to refresh has happened
C2_Witness ==
    /\ last.op = "runDiscovery" /\ last.repeats
    /\ last.result.existingUpdated = 2
    /\ last.result.newDocuments = 0
    /\ \E i \in DocIdx : \E k \in 1..Len(docs[i].discoveryLineage) :
          /\ docs[i].discoveryLineage[k].firstSeen < docs[i].discoveryLineage[k].lastSeen

\* C3: a canonical URL that two discovery sources have surfaced, in one run or
\* in several, has exactly one record, whose lineage has an entry for each
\* (source, sourceId) pair that surfaced it.
C3_OneRecordTwoEntries ==
    \A c \in { s[1] : s \in surfaced } :
        LET pairs == { <<s[2], s[3]>> : s \in { x \in surfaced : x[1] = c } }
            recs == { i \in DocIdx : docs[i].canonicalUrl = c }
        IN  Cardinality(pairs) >= 2 =>
                /\ Cardinality(recs) = 1
                /\ \A i \in recs : \A p \in pairs :
                      Cardinality({ k \in 1..Len(docs[i].discoveryLineage) :
                                      /\ docs[i].discoveryLineage[k].source = p[1]
                                      /\ docs[i].discoveryLineage[k].sourceId = p[2] }) = 1

\* the collection is as it was, up to the fetch and update timestamps
SameUpToTimestamps ==
    /\ Len(docs') = Len(docs)
    /\ \A i \in DocIdx : SameExcept(docs[i], docs'[i], {"lastFetchedAt", "updatedAt"})

\* C7: a second processEpsteinDocument call for the same url and title, answered
\* as the first was or with a 304, leaves every record as the first call left
\* it, up to lastFetchedAt and updatedAt.
C7_Idempotent ==
    [][ (/\ last.op = "processEpsteinDocument"
         /\ last'.op = "processEpsteinDocument"
         /\ last'.url = last.url
         /\ last'.title = last.title
         /\ (last'.answer = last.answer \/ last'.answer.status = 304))
            => SameUpToTimestamps ]_vars

\* an indexed record was processed again and the server said 304
C7_Witness ==
    /\ last.op = "processEpsteinDocument" /\ last.repeats
    /\ last.answer.status = 304
    /\ \E i \in DocIdx :
          /\ docs[i].sourceUrl = last.url
          /\ docs[i].status = "indexed"
          /\ docs[i].lastFetchedAt = now - 1
          /\ docs[i].createdAt < now - 1

\* the record processEpsteinDocument(url) works on, in a collection
Stored(ds, url) == ds[findBySourceUrl(ds, url)]
HasValidator(d) == d.httpEtag # NULL \/ d.httpLastModified # NULL

\* the record of url keeps everything but the fields in free, and no other
\* record changes
OnlyWrites(url, free) ==
    /\ Len(docs') = Len(docs)
    /\ \A i \in DocIdx :
          IF docs[i].sourceUrl = url
          THEN SameExcept(docs[i], docs'[i], free \cup {"updatedAt"})
          ELSE docs'[i] = docs[i]

\* C8: a 304 for a record that has a stored ETag or Last-Modified leaves its
\* rawText, byteHash, textHash, pageCount, extractionQuality, httpEtag and
\* httpLastModified as they were: only status and lastFetchedAt are written
\* (and the store's updatedAt stamp).
C8_NotModifiedFrame ==
    [][ (/\ last'.op = "processEpsteinDocument"
         /\ last'.answer.status = 304
         /\ findBySourceUrl(docs, last'.url) # 0
         /\ HasValidator(Stored(docs, last'.url)))
            => /\ last'.outcome = "not-modified"
               /\ OnlyWrites(last'.url, {"status", "lastFetchedAt"})
               /\ Stored(docs', last'.url).lastFetchedAt = now ]_vars

\* a record with a stored ETag got a 304: its text is still there
C8_Witness ==
    /\ last.op = "processEpsteinDocument" /\ last.outcome = "not-modified"
    /\ \E i \in DocIdx :
          /\ docs[i].sourceUrl = last.url
          /\ docs[i].httpEtag = "e1"
          /\ docs[i].rawText = "pdf-text"
          /\ docs[i].lastFetchedAt = now - 1
          /\ docs[i].createdAt < now - 1

\* C9: a 200 whose bytes hash to the stored byteHash of a record that was
\* indexed before the call skips extraction: rawText, textHash, byteHash,
\* pageCount and extractionQuality stay, the status ends as indexed, and only
\* lastFetchedAt, httpEtag and httpLastModified are written.
C9_HashMatchFrame ==
    [][ (/\ last'.op = "processEpsteinDocument"
         /\ last'.answer.status = 200
         /\ findBySourceUrl(docs, last'.url) # 0
         /\ Stored(docs, last'.url).byteHash = hashBuffer(last'.answer.body)
         /\ Stored(docs, last'.url).status = "indexed")
            => /\ last'.outcome = "hash-match"
               /\ OnlyWrites(last'.url, {"lastFetchedAt", "httpEtag", "httpLastModified"})
               /\ Stored(docs', last'.url).status = "indexed"
               /\ Stored(docs', last'.url).lastFetchedAt = now ]_vars

\* an indexed record was fetched again with the same bytes
C9_Witness ==
    /\ last.op = "processEpsteinDocument" /\ last.outcome = "hash-match"
    /\ \E i \in DocIdx :
          /\ docs[i].sourceUrl = last.url
          /\ docs[i].status = "indexed"
          /\ docs[i].byteHash = hashBuffer(last.answer.body)
          /\ docs[i].rawText = "pdf-text"
          /\ docs[i].lastFetchedAt = now - 1
          /\ docs[i].createdAt < now - 1

\* C10: the status of a full extraction is needs_ocr exactly for a PDF with
\* pages and fewer than 50 characters per page; otherwise indexed exactly when
\* the text is longer than 50 characters; otherwise error.  A PDF of 3 pages and
\* 40 characters is needs_ocr, and the status is never pending or processing.
C10_StatusDecision ==
    spc = "done" =>
        LET scan == /\ sIn.fileType = "pdf" /\ sIn.pageCount > 0
                    /\ sIn.chars < 50 * sIn.pageCount
        IN  /\ sOut.status = "needs_ocr" <=> scan
            /\ ~scan => (sOut.status = "indexed" <=> sIn.chars > 50)
            /\ (~scan /\ sIn.chars <= 50) => sOut.status = "error"
            /\ sIn = [ fileType |-> "pdf", pageCount |-> 3, chars |-> 40 ]
                    => sOut.status = "needs_ocr"
            /\ sOut.status \in {"needs_ocr", "indexed", "error"}

\* the 3-page, 40-character PDF has been decided
C10_Witness ==
    /\ spc = "done"
    /\ sIn = [ fileType |-> "pdf", pageCount |-> 3, chars |-> 40 ]
    /\ sOut.status = "needs_ocr"

-----------------------------------------------------------------------------
(* Properties of runDiscovery's error handling and counts *)

\* the discoverers of the last run that threw, and those that returned
ThrewIn(outcomes) ==
    { s \in Elems(DiscoverySources) : outcomes[s].ran /\ outcomes[s].threw }
ReturnedIn(outcomes) ==
    { s \in Elems(DiscoverySources) : outcomes[s].ran /\ ~outcomes[s].threw }

RECURSIVE ErrorsReported(_, _)
\* the errors the discoverers in the set reported in their results
ErrorsReported(outcomes, srcs) ==
    IF srcs = {} THEN 0
    ELSE LET s == CHOOSE x \in srcs : TRUE
         IN  outcomes[s].errors + ErrorsReported(outcomes, srcs \ {s})

\* C11: when a selected discoverer throws, the other selected discoverers are
\* still run and counted, the throw adds exactly one error, the documents of
\* the discoverers that returned are persisted, the run record is completed
\* and the result has errors >= 1.
C11_ThrowTolerated ==
    (last.op = "runDiscovery" /\ ThrewIn(last.outcomes) # {}) =>
        /\ last.result.errors =
              Cardinality(ThrewIn(last.outcomes))
                + ErrorsReported(last.outcomes, ReturnedIn(last.outcomes))
        /\ last.result.errors >= 1
        /\ \A s \in ReturnedIn(last.outcomes) :
              /\ <<s, Len(last.outcomes[s].documents)>> \in last.result.bySource
              /\ \A i \in 1..Len(last.outcomes[s].documents) :
                    \E d \in 1..Len(docs) :
                        docs[d].canonicalUrl = normalizeUrl(last.outcomes[s].documents[i].url)
        /\ runs[last.result.runId].completedAt = now - 1
        /\ runs[last.result.runId].errors = last.result.errors

\* a run where one discoverer threw and a later one returned a document that
\* is now in the catalog
C11_Witness ==
    /\ last.op = "runDiscovery"
    /\ Cardinality(ThrewIn(last.outcomes)) = 1
    /\ \E s \in ReturnedIn(last.outcomes) : Len(last.outcomes[s].documents) > 0
    /\ last.result.newDocuments > 0
    /\ last.result.errors >= 1

-----------------------------------------------------------------------------
(* runDiscovery over hub listings of numbered documents *)

MaxListed == 10     \* documents of the longest hub listing

\* the URL of the i-th document of the hub listing
ListedUrl(i) == <<"https:", "/", "/", "h", "/", ToString(i)>>

\* a hub listing: the documents numbered from..to
Listing(from, to) ==
    [ k \in 1..(to - from + 1) |-> Discovered(ListedUrl(from + k - 1), "hub1") ]

\* the listings the hub crawler may return: heads and tails of the full one
Listings ==
    { Listing(1, 2), Listing(2, 3), Listing(1, MaxListed), Listing(3, MaxListed) }

MaxFaultAt == 2     \* the store fails at one of the first MaxFaultAt items

\* the store works throughout, or one operation of one item fails
Faults ==
    { NoFault } \cup { [ at |-> k, op |-> o ] : k \in 1..MaxFaultAt, o \in FaultOps }

HubOnly == [ sources |-> <<"hub-scrape">> ]

OnlyHubReturned(listing) ==
    [ s \in Elems(DiscoverySources) |->
        IF s = "hub-scrape" THEN Returned(listing, 0) ELSE NotRun ]

\* runDiscovery({sources: ['hub-scrape']}) on a listing, the store failing or not
RunHubListing ==
    /\ now <= MaxOps
    /\ \E listing \in Listings, fault \in Faults :
         AfterDiscovery(HubOnly, OnlyHubReturned(listing), fault,
             runDiscovery(docs, aliases, runs, HubOnly, OnlyHubReturned(listing),
                          fault, now, FALSE))
    /\ now' = now + 1
    /\ UNCHANGED <<tasks, normVars, statusVars, eftaVars, inflight>>

NextCounts == RunHubListing

SpecCounts == Init /\ [][NextCounts]_vars

\* the canonical URLs a run's discoverers returned, and those among them that
\* match no record of the catalog ds, neither by canonical URL nor by a source
\* URL they were returned as
CanonicalsOf(outcomes) == { s[1] : s \in SurfacedBy(outcomes) }
ReturnedDocs(outcomes) ==
    UNION { Elems(outcomes[s].documents) :
            s \in { x \in Elems(DiscoverySources) :
                      outcomes[x].ran /\ ~outcomes[x].threw } }
MatchedOf(outcomes, ds) ==
    { normalizeUrl(d.url) :
        d \in { x \in ReturnedDocs(outcomes) :
                  \E i \in 1..Len(ds) :
                      \/ ds[i].canonicalUrl = normalizeUrl(x.url)
                      \/ ds[i].sourceUrl = x.url } }
UnmatchedOf(outcomes, ds) == CanonicalsOf(outcomes) \ MatchedOf(outcomes, ds)

\* the counts of the run that just returned, `failed` of its unmatched items
\* being counted as updated
CountsAre(found, new, failed) ==
    /\ last'.result.totalDiscovered = found
    /\ last'.result.newDocuments = new - failed
    /\ last'.result.existingUpdated = (found - new) + failed
    /\ last'.result.newDocuments + last'.result.existingUpdated
          = last'.result.totalDiscovered
    /\ runs'[last'.result.runId].urlsFound = found
    /\ runs'[last'.result.runId].urlsNew = new - failed
    /\ runs'[last'.result.runId].urlsChanged = (found - new) + failed
    /\ Len(docs') = Len(docs) + (new - failed)

\* the counts are those of the deduplicated items: matched ones are updated,
\* unmatched ones new
CountsAgree ==
    CountsAre(Cardinality(CanonicalsOf(last'.outcomes)),
              Cardinality(UnmatchedOf(last'.outcomes, docs)), 0)

\* the number of creates that failed in the run that just ended: the item the
\* fault names, when it is an unmatched one and the operation is the create
FailedCreates ==
    IF /\ last'.fault.op = "create"
       /\ last'.fault.at <= Len(last'.outcomes["hub-scrape"].documents)
       /\ normalizeUrl(last'.outcomes["hub-scrape"].documents[last'.fault.at].url)
             \in UnmatchedOf(last'.outcomes, docs)
    THEN 1 ELSE 0

\* C12 as stated: for every runDiscovery that returns, newDocuments +
\* existingUpdated = totalDiscovered = urlsFound, newDocuments being the
\* deduplicated items that match no existing record and existingUpdated those
\* that match one.  A create that fails makes an unmatched item count as updated.
C12_CountsAsStated ==
    [][ (last'.op = "runDiscovery" /\ last'.returned) => CountsAgree ]_vars

\* C12: for every runDiscovery that returns, newDocuments + existingUpdated =
\* totalDiscovered = urlsFound; newDocuments is the number of deduplicated items
\* that matched no existing record and were created, existingUpdated the number
\* that matched one plus the number whose create failed; 10 hub URLs of which 2
\* exist give newDocuments = 8 and existingUpdated = 2 when no create fails.
C12_CountsAgree ==
    [][ (last'.op = "runDiscovery" /\ last'.returned) =>
            CountsAre(Cardinality(CanonicalsOf(last'.outcomes)),
                      Cardinality(UnmatchedOf(last'.outcomes, docs)),
                      FailedCreates) ]_vars

\* a hub listing of 10 documents met a catalog that had 2 of them
C12_Witness ==
    /\ last.op = "runDiscovery" /\ last.returned
    /\ last.fault = NoFault
    /\ Len(last.outcomes["hub-scrape"].documents) = 10
    /\ last.result.totalDiscovered = 10
    /\ last.result.newDocuments = 8
    /\ last.result.existingUpdated = 2
    /\ Len(docs) = 10

-----------------------------------------------------------------------------
(* Store failures during the persistence step of runDiscovery *)

\* every document the discoverers of the last run returned, but the one at
\* position `at` of the hub listing, has a record under its canonical URL
OthersPersisted(at) ==
    \A k \in 1..Len(last.outcomes["hub-scrape"].documents) :
        k # at =>
            \E i \in 1..Len(docs) :
                docs[i].canonicalUrl
                    = normalizeUrl(last.outcomes["hub-scrape"].documents[k].url)

\* C20: a failure of one item's catalog operation (lookup, update, create or
\* alias upsert) during the persistence step degrades only that item: the
\* remaining items are persisted, the DiscoveryRun is finalized with
\* completedAt, and a DiscoveryResult is returned.
C20_ItemFailureContained ==
    (last.op = "runDiscovery" /\ last.fault # NoFault) =>
        /\ last.returned
        /\ runs[Len(runs)].completedAt # NoTime
        /\ OthersPersisted(last.fault.at)

-----------------------------------------------------------------------------
(* hub-crawler.ts: inference of the EFTA-numbered files of a data set *)

\* the characters \d matches, in the order of their values
DigitChars == <<"0", "1", "2", "3", "4", "5", "6", "7", "8", "9">>
IsDigit(t) == \E i \in 1..Len(DigitChars) : DigitChars[i] = t

RECURSIVE parseInt(_)
\* parseInt(digits, 10) of a string of decimal digits
parseInt(ds) ==
    Only({ IF d = <<>> THEN 0
           ELSE parseInt(Front(d)) * 10 + (IndexOf(DigitChars, Last(d)) - 1) :
             d \in { ds } })

RECURSIVE NumberToString(_)
\* String(num) of a natural number: its decimal digits, no leading zero
NumberToString(num) ==
    IF num < 10 THEN <<DigitChars[num + 1]>>
    ELSE NumberToString(num \div 10) \o <<DigitChars[(num % 10) + 1]>>

\* String.prototype.padStart(width, fill): a longer string is returned as it is
padStart(str, width, fill) ==
    IF Len(str) >= width THEN str
    ELSE [ i \in 1..(width - Len(str)) |-> fill ] \o str

PAD_WIDTH == 8
DEFAULT_PER_PAGE == 50
DEFAULT_MAX_PAGES_PER_HUB == 4

\* /EFTA(\d+)\.pdf/ matches url with "EFTA" at i and ".pdf" at j
MatchesAt(url, i, j) ==
    /\ url[i] = "EFTA"
    /\ j > i + 1
    /\ url[j] = ".pdf"
    /\ \A k \in (i + 1)..(j - 1) : IsDigit(url[k])

\* the leftmost match, as the pair <<i, j>>; <<0, 0>> when there is none
MatchFrom(url, i) ==
    IF i = 0 THEN <<0, 0>>
    ELSE <<i, CHOOSE j \in 1..Len(url) : MatchesAt(url, i, j)>>
MatchIn(url) ==
    MatchFrom(url, FirstOf({ i \in 1..Len(url) :
                               \E j \in 1..Len(url) : MatchesAt(url, i, j) }))
EftaMatch(url) == Only({ MatchIn(v) : v \in { url } })

\* match[1]
DigitsOf(url, m) == SubSeq(url, m[1] + 1, m[2] - 1)
\* pdf.url.replace(/EFTA\d+\.pdf/, 'EFTA{NUM}.pdf')
TemplateOf(url, m) ==
    SubSeq(url, 1, m[1]) \o <<"{NUM}">> \o SubSeq(url, m[2], Len(url))
\* baseUrlTemplate.replace('{NUM}', paddedNum): the first occurrence
FillAt(template, k, paddedNum) ==
    SubSeq(template, 1, k - 1) \o paddedNum \o SubSeq(template, k + 1, Len(template))
Fill(template, paddedNum) == FillAt(template, IndexOf(template, "{NUM}"), paddedNum)

\* the record pushed for num
InferredOf(template, paddedNum, sourceHub) ==
    [ url |-> Fill(template, paddedNum), title |-> <<"EFTA">> \o paddedNum,
      sourceHub |-> sourceHub, fileType |-> "pdf" ]
InferredDoc(template, num, sourceHub) ==
    InferredOf(template, padStart(NumberToString(num), PAD_WIDTH, "0"), sourceHub)

\* startNum + totalEstimatedDocs - 1, and the wrong bound one past it
EndNumPastEnd(startNum, totalPages, perPage) == startNum + totalPages * perPage
EndNum(startNum, totalPages, perPage) == startNum + totalPages * perPage - 1

\* the loop from endOfKnown + 1 to endNum
InferRange(template, endOfKnown, endNum, sourceHub) ==
    [ k \in 1..(endNum - endOfKnown) |-> InferredDoc(template, endOfKnown + k, sourceHub) ]

\* eftaNumbers after the sort: its first and its last element
MinOf(nums) == CHOOSE x \in nums : \A y \in nums : x <= y
MaxOf(nums) == CHOOSE x \in nums : \A y \in nums : y <= x

\* the known items the pattern matches, by position
Matching(knownPdfs) ==
    { k \in 1..Len(knownPdfs) : EftaMatch(knownPdfs[k].url)[1] # 0 }
\* parseInt(match[1], 10)
EftaNumber(url) == Only({ parseInt(DigitsOf(url, m)) : m \in { EftaMatch(url) } })
EftaNumbers(knownPdfs) ==
    { EftaNumber(knownPdfs[k].url) : k \in Matching(knownPdfs) }

InferFrom(firstUrl, nums, totalPages, perPage, sourceHub) ==
    Only({ InferRange(q[1], q[2], q[3], sourceHub) :
             q \in { << TemplateOf(firstUrl, EftaMatch(firstUrl)), MaxOf(nums),
                        EndNum(MinOf(nums), totalPages, perPage) >> } })

inferEftaUrls(knownPdfs, totalPages, perPage, sourceHub) ==
    IF Cardinality(Matching(knownPdfs)) < 2 THEN <<>>
    ELSE Only({ InferFrom(q[1], q[2], totalPages, perPage, sourceHub) :
                  q \in { << knownPdfs[FirstOf(Matching(knownPdfs))].url,
                             EftaNumbers(knownPdfs) >> } })


\* crawlHubPages on one data-set hub.  acc carries allDocuments, seenUrls and
\* the documents this call pushed (extraPdfs when it scrapes an extra page).
\* the loop `if (!seenUrls.has(normalized)) { seenUrls.add(normalized); push }`
\* over documents: ns are their normalized URLs, fresh the positions pushed
NormalizedOf(documents) ==
    [ i \in 1..Len(documents) |-> normalizeUrl(documents[i].url) ]
FreshIn(seenUrls, ns) ==
    { i \in 1..Len(ns) : ns[i] \notin seenUrls /\ \A j \in 1..(i - 1) : ns[j] # ns[i] }
Picked(documents, fresh) ==
    [ k \in 1..Cardinality(fresh) |->
        documents[CHOOSE i \in fresh : Cardinality({ j \in fresh : j <= i }) = k] ]
AddPicked(acc, ns, picked) ==
    [ allDocuments |-> acc.allDocuments \o picked,
      seenUrls |-> acc.seenUrls \cup { ns[i] : i \in 1..Len(ns) },
      pushed |-> acc.pushed \o picked ]
AddNormalized(acc, documents, ns) ==
    Only({ AddPicked(acc, ns, Picked(documents, fresh)) :
             fresh \in { FreshIn(acc.seenUrls, ns) } })
AddListed(acc, documents) ==
    Only({ AddNormalized(acc, documents, ns) : ns \in { NormalizedOf(documents) } })
AddUnseen(acc, documents) == Only({ AddListed(acc, d) : d \in { documents } })

OnlyPdf(documents) ==
    IF \E i \in 1..Len(documents) : documents[i].fileType # "pdf"
    THEN SelectSeq(documents, LAMBDA d : d.fileType = "pdf")
    ELSE documents

\* Math.min(totalPages - 1, maxPagesPerHub - 1)
ExtraPages(totalPages, maxPagesPerHub) ==
    IF totalPages <= maxPagesPerHub THEN totalPages - 1 ELSE maxPagesPerHub - 1

RECURSIVE ScrapeExtra(_, _, _, _)
\* the loop over ?page=1..extraPages; pages[page] is what fetchPage and
\* extractLinks gave for it, "blocked" when fetchPage returned null
ScrapeExtra(acc, page, extraPages, pages) ==
    IF page > extraPages \/ pages[page] = <<"blocked">> THEN acc
    ELSE ScrapeExtra(AddUnseen(acc, pages[page]), page + 1, extraPages, pages)

\* the inference and the push of what it returned
InferAndAdd(acc, inferred, allKnownPdfs, totalPages, perPage) ==
    [ known |-> allKnownPdfs, totalPages |-> totalPages, perPage |-> perPage,
      inferred |-> inferred,
      documents |-> AddUnseen(acc, inferred).allDocuments ]
InferKnown(acc, allKnownPdfs, totalPages, perPage, hubUrl) ==
    InferAndAdd(acc, inferEftaUrls(allKnownPdfs, totalPages, perPage, hubUrl),
                allKnownPdfs, totalPages, perPage)
AfterExtra(pdfDocs, acc, totalPages, hubUrl) ==
    InferKnown(acc, pdfDocs \o acc.pushed, totalPages,
               IF Len(pdfDocs) = 0 THEN DEFAULT_PER_PAGE ELSE Len(pdfDocs), hubUrl)
AfterFirst(pdfDocs, acc, totalPages, pages, maxPagesPerHub, hubUrl) ==
    AfterExtra(pdfDocs,
               ScrapeExtra([acc EXCEPT !.pushed = <<>>], 1,
                           ExtraPages(totalPages, maxPagesPerHub), pages),
               totalPages, hubUrl)

\* one iteration of the hub loop for a hub whose URL names a data set:
\* documents and totalPages are what extractLinks and detectTotalPages found
\* on the page of the hub itself
crawlDataSetHub(documents, totalPages, pages, maxPagesPerHub, hubUrl) ==
    AfterFirst(OnlyPdf(documents),
               AddUnseen([ allDocuments |-> <<>>, seenUrls |-> {}, pushed |-> <<>> ],
                         documents),
               totalPages, pages, maxPagesPerHub, hubUrl)

-----------------------------------------------------------------------------
(* The inference on the lists a crawl can hand it *)

MaxKnown == 3           \* known items handed to inferEftaUrls directly
MaxTotalPages == 3      \* detected pages, when handed directly
MaxPerPage == 3         \* items per page, when handed directly
MaxDataSetPages == 5    \* detected pages of a crawled data set

DataSetHub == "data-set-1-files"
FilesBase == <<"https:", "/", "/", "h", "/", "files", "/">>

\* a file of the data set, named with the given digits
EftaFile(digits) ==
    [ url |-> FilesBase \o <<"EFTA">> \o digits \o <<".pdf">>, title |-> <<"Link">>,
      sourceHub |-> DataSetHub, fileType |-> "pdf" ]
\* the file numbered num, named as the site names it
Numbered(num) == EftaFile(padStart(NumberToString(num), PAD_WIDTH, "0"))

KnownPool ==
    { Numbered(1), Numbered(2), Numbered(4), EftaFile(<<"7">>),
      [ url |-> FilesBase \o <<"a.pdf">>, title |-> <<"Link">>,
        sourceHub |-> DataSetHub, fileType |-> "pdf" ] }
KnownLists == UNION { [1..n -> KnownPool] : n \in 0..MaxKnown }

\* the page-th page (from 0) of a data set listing perPage files from
\* number 1 on
PageOf(page, perPage) == [ k \in 1..perPage |-> Numbered(page * perPage + k) ]
\* the extra pages, the one at blockedAt and all after it refused
PagesOf(perPage, blockedAt) ==
    [ page \in 1..MaxDataSetPages |->
        IF page >= blockedAt THEN <<"blocked">> ELSE PageOf(page, perPage) ]

InferInputs ==
    [ kind : {"infer"}, known : KnownLists, totalPages : 1..MaxTotalPages,
      perPage : 1..MaxPerPage, blockedAt : {0} ]
CrawlInputs ==
    { [ kind |-> "crawl", known |-> PageOf(0, n), totalPages |-> p,
        perPage |-> n, blockedAt |-> b ] :
        n \in {0, 2, DEFAULT_PER_PAGE}, p \in 1..MaxDataSetPages,
        b \in 1..MaxDataSetPages }

InitEfta ==
    /\ CatalogInit
    /\ NormIdle
    /\ StatusIdle
    /\ NoneInFlight
    /\ epc = "in"
    /\ eIn \in InferInputs \cup CrawlInputs
    /\ eOut = <<>>

\* inferEftaUrls(knownPdfs, totalPages, perPage, sourceHub)
InferEftaUrls ==
    /\ epc = "in" /\ eIn.kind = "infer"
    /\ eOut' = InferKnown([ allDocuments |-> eIn.known, seenUrls |-> {}, pushed |-> <<>> ],
                          eIn.known, eIn.totalPages, eIn.perPage, DataSetHub)
    /\ epc' = "out"
    /\ UNCHANGED <<tasks, eIn, catalogVars, normVars, statusVars, inflight>>

\* crawlHubPages over the data-set hub
CrawlDataSetHub ==
    /\ epc = "in" /\ eIn.kind = "crawl"
    /\ eOut' = crawlDataSetHub(eIn.known, eIn.totalPages,
                               PagesOf(eIn.perPage, eIn.blockedAt),
                               DEFAULT_MAX_PAGES_PER_HUB, DataSetHub)
    /\ epc' = "out"
    /\ UNCHANGED <<tasks, eIn, catalogVars, normVars, statusVars, inflight>>

NextEfta == InferEftaUrls \/ CrawlDataSetHub

SpecEfta == InitEfta /\ [][NextEfta]_vars

\* the EFTA numbers of the items given to the inference
GivenNumbers == EftaNumbers(eOut.known)
\* the digits between "EFTA" and ".pdf" of an inferred URL
InferredDigits(k) ==
    SubSeq(eOut.inferred[k].url, Len(FilesBase) + 2, Len(eOut.inferred[k].url) - 1)
\* the numbers the claim gives: from e+1 to s + P*n - 1
ExpectedCount ==
    IF MinOf(GivenNumbers) + eOut.totalPages * eOut.perPage - 1 > MaxOf(GivenNumbers)
    THEN MinOf(GivenNumbers) + eOut.totalPages * eOut.perPage - 1 - MaxOf(GivenNumbers)
    ELSE 0

\* C13: from at least two known items whose EFTA numbers have minimum s and
\* maximum e, P detected pages and n items per page, the inference emits
\* exactly the URLs numbered e+1 .. s + P*n - 1, once each, ascending,
\* zero-padded to 8 digits, none of them a known number.
C13_InferredRange ==
    (epc = "out" /\ Cardinality(Matching(eOut.known)) >= 2) =>
        /\ Len(eOut.inferred) = ExpectedCount
        /\ \A k \in 1..Len(eOut.inferred) :
              /\ eOut.inferred[k].url
                    = FilesBase \o <<"EFTA">> \o InferredDigits(k) \o <<".pdf">>
              /\ Len(InferredDigits(k)) = PAD_WIDTH
              /\ \A i \in 1..PAD_WIDTH : IsDigit(InferredDigits(k)[i])
              /\ parseInt(InferredDigits(k)) = MaxOf(GivenNumbers) + k
              /\ parseInt(InferredDigits(k)) \notin GivenNumbers

\* files 1..50 on the first page, 4 pages of 50 detected, the second page
\* refused: the 150 URLs EFTA00000051.pdf .. EFTA00000200.pdf
C13_Witness ==
    /\ epc = "out" /\ eIn.kind = "crawl"
    /\ eIn.perPage = 50 /\ eIn.totalPages = 4 /\ eIn.blockedAt = 1
    /\ Len(eOut.known) = 50
    /\ Len(eOut.inferred) = 150
    /\ eOut.inferred[1].url = Numbered(51).url
    /\ eOut.inferred[150].url = Numbered(200).url
    /\ eOut.inferred[150].url
          = FilesBase \o <<"EFTA", "0", "0", "0", "0", "0", "2", "0", "0", ".pdf">>
    /\ Len(eOut.documents) = 200

-----------------------------------------------------------------------------
(* processEpsteinDocument when one of its steps fails *)

\* the answers on which fetchWithConditional throws; status 0 stands for no
\* answer at all (a network error or a timeout), 500 for axios rejecting a 5xx
FailingAnswers ==
    { Answer(st, "", "", NULL, NULL) : st \in { 403, 429, 404, 500, 0 } }

StepFailures ==
    { [ step |-> s, answer |-> Answer(200, "pdf", "application/pdf", "e1", NULL) ] :
        s \in { "lookup", "mark", "update" } }
    \cup { [ step |-> "fetch", answer |-> a ] : a \in FailingAnswers }

\* processEpsteinDocument(url, title) with a failing step
ProcessFailing ==
    /\ now <= MaxOps
    /\ \E url \in ProcessUrls, title \in Titles, f \in StepFailures, lowId \in BOOLEAN :
         /\ docs' = processFailing(docs, url, title, f.step, f.answer, now, lowId)
         /\ last' = [ op |-> "processEpsteinDocument", url |-> url, title |-> title,
                      answer |-> f.answer, outcome |-> "failed", step |-> f.step,
                      seen |-> findBySourceUrl(docs, url) # 0, repeats |-> FALSE ]
    /\ now' = now + 1
    /\ UNCHANGED <<tasks, aliases, runs, surfaced, normVars, statusVars, eftaVars, inflight>>

NextFailing == ProcessEpsteinDocument \/ ProcessFailing

SpecFailing == Init /\ [][NextFailing]_vars

\* C14: when a step of processEpsteinDocument fails (network error, timeout,
\* 403/429, another non-200 status), the call returns and a record of the url
\* exists with status error, created if the url had never been seen.
C14_FailureRecorded ==
    (last.op = "processEpsteinDocument" /\ last.outcome = "failed") =>
        /\ \E i \in 1..Len(docs) :
              /\ docs[i].sourceUrl = last.url
              /\ docs[i].status = "error"
        /\ \A i \in 1..Len(docs) :
              docs[i].sourceUrl = last.url => docs[i].status = "error"

\* the first lookup failed for a url the catalog had never seen, and the url
\* has its record
C14_Witness ==
    /\ last.op = "processEpsteinDocument" /\ last.outcome = "failed"
    /\ "step" \in DOMAIN last /\ last.step = "lookup" /\ ~last.seen
    /\ Len(docs) = 2
    /\ \E i \in 1..Len(docs) :
          docs[i].sourceUrl = last.url /\ docs[i].status = "error"

-----------------------------------------------------------------------------
(* processAllPending over documents some of which fail *)

MaxBatch == 3       \* the largest maxDocuments of a batch

\* what one call of the batch meets: a document, a refusal, a missing file,
\* or a store that is unreachable for the length of the call
BatchOutcomes ==
    { Answer(200, "pdf", "application/pdf", "e1", NULL),
      Answer(403, "", "", NULL, NULL),
      Answer(404, "", "", NULL, NULL),
      StoreDown }

\* processAllPending({maxDocuments})
ProcessBatch ==
    /\ now <= MaxOps
    /\ \E maxDocuments \in 1..MaxBatch :
         \E answers \in [ 1..Len(PendingOf(docs, maxDocuments)) -> BatchOutcomes ] :
            AfterBatch(PendingOf(docs, maxDocuments), answers,
                       processAllPending(docs, maxDocuments, answers, now))
    /\ now' = now + 1
    /\ UNCHANGED <<tasks, aliases, runs, surfaced, normVars, statusVars, eftaVars, inflight>>

NextBatch == RunDiscovery \/ ProcessBatch

SpecBatch == Init /\ [][NextBatch]_vars

\* the k-th pulled record is older than the next one
OldestFirst(pulledDocs) ==
    \A k \in 1..(Len(pulledDocs) - 1) : pulledDocs[k].id < pulledDocs[k + 1].id

\* C15: processAllPending attempts every record it pulled exactly once, one at
\* a time, in the pulled (oldest-first) order, whatever failed before; it
\* returns counts with processed + errors = number of records pulled.
C15_EachOnceInOrder ==
    last.op = "processAllPending" =>
        /\ OldestFirst(last.pulledDocs)
        /\ Len(last.attempted) = Len(last.pulledDocs)
        /\ \A k \in 1..Len(last.pulledDocs) :
              last.attempted[k] = last.pulledDocs[k].sourceUrl
        /\ last.processed + last.errors = last.pulled
        /\ last.errors = Cardinality({ k \in 1..Len(last.answers) :
                                         last.answers[k] = StoreDown })

\* a batch of two whose first call threw and whose second was refused
C15_Witness ==
    /\ last.op = "processAllPending"
    /\ last.pulled = 2
    /\ last.answers[1] = StoreDown
    /\ last.answers[2].status = 403
    /\ last.attempted = <<last.pulledDocs[1].sourceUrl, last.pulledDocs[2].sourceUrl>>
    /\ last.processed = 1 /\ last.errors = 1

-----------------------------------------------------------------------------
(* Rate-limited documents and the next batch *)

\* the source URLs a processAllPending that takes every eligible record pulls
PulledNext == { d.sourceUrl : d \in Elems(PendingOf(docs, Len(docs))) }

\* C18: a document whose fetch is answered with 403 or 429 is left in status
\* error and is retried on a future pass: a later processAllPending selects
\* the record again.
C18_RateLimitedRetried ==
    (/\ last.op = "processEpsteinDocument"
     /\ last.answer.status \in { 403, 429 }
     /\ last.outcome = "failed"
     /\ fetchWithConditional(last.answer) = "throw-rate-limited") =>
        /\ \E i \in 1..Len(docs) :
              docs[i].sourceUrl = last.url /\ docs[i].status = "error"
        /\ last.url \in PulledNext

-----------------------------------------------------------------------------
(* runDiscovery invocations that overlap: every awaited store call of
   persistDiscoveries is a step of its own, and the steps of the invocations
   in progress interleave *)

MaxRuns == 2        \* runDiscovery invocations in progress together

\* existing === null
NoRecord == [ id |-> 0 ]

\* the origin a discoverer reports for what it returns
SourceHubOf(src) ==
    CASE src = "hub-scrape" -> "hub1"
      [] src = "sitemap-parse" -> "sitemap1"
      [] src = "ia-cdx" -> "ia-cdx:q"

\* the discoverer src returned the URLs of listing, the others were not selected
OnlyReturned(src, listing) ==
    [ s \in Elems(DiscoverySources) |->
        IF s = src
        THEN Returned([ k \in 1..Len(listing) |-> Discovered(listing[k], SourceHubOf(src)) ], 0)
        ELSE NotRun ]

RaceSources == { "hub-scrape", "sitemap-parse" }
RaceListings == { <<UrlPdf>>, <<UrlPdfHttp>>, <<UrlPdf, UrlPage>> }

\* the catalog before the overlapping invocations: empty, or as an earlier
\* runDiscovery({sources: ['ia-cdx']}) that found http://h/a.pdf left it
Seeded ==
    runDiscovery(<<>>, <<>>, <<>>, [ sources |-> <<"ia-cdx">> ],
                 OnlyReturned("ia-cdx", <<UrlPdfHttp>>), NoFault, 1, FALSE)

InitRace ==
    /\ \/ /\ docs = <<>> /\ aliases = <<>> /\ runs = <<>> /\ now = 1
       \/ /\ docs = Seeded.docs /\ aliases = Seeded.aliases /\ runs = Seeded.runs
          /\ now = 2
    /\ last = [op |-> "none"]
    /\ surfaced = {}
    /\ NormIdle
    /\ StatusIdle
    /\ EftaIdle
    /\ NoneInFlight

\* the local variables of an invocation that has created its run record and
\* gathered and deduplicated what its discoverers returned
TaskOf(rs1, items, totalErrors) ==
    [ run |-> Len(rs1), items |-> items, k |-> 1,
      pc |-> IF items = <<>> THEN "conclude" ELSE "lookup",
      existing |-> NoRecord,
      newCount |-> 0, updatedCount |-> 0, aliasCount |-> 0,
      totalErrors |-> totalErrors ]
Gathered(rs1, g) == TaskOf(rs1, deduplicateUrls(g.allDiscovered), g.totalErrors)

\* runDiscovery up to the call of persistDiscoveries
StartRun ==
    /\ Len(inflight) < MaxRuns
    /\ \E src \in RaceSources, listing \in RaceListings :
         /\ runs' = createRun(runs, <<src>>, [ sources |-> <<src>> ], now)
         /\ inflight' = Append(inflight,
               Gathered(runs',
                        Gather([ allDiscovered |-> <<>>, bySource |-> {}, totalErrors |-> 0 ],
                               1, OnlyReturned(src, listing))))
         /\ surfaced' = surfaced \cup SurfacedBy(OnlyReturned(src, listing))
    /\ now' = now + 1
    /\ UNCHANGED <<tasks, docs, aliases, last, normVars, statusVars, eftaVars>>

\* the item the invocation is at
ItemOf(task) == task.items[task.k]

\* the end of the loop body
Advance(task) ==
    [ task EXCEPT !.k = @ + 1,
                  !.pc = IF task.k + 1 > Len(task.items) THEN "conclude" ELSE "lookup" ]

\* what findByCanonicalUrlOrSourceUrl resolves to
Looked(i) == IF i # 0 THEN docs[i] ELSE NoRecord

\* await epsteinDocuments.findByCanonicalUrlOrSourceUrl(...)
LookupStep(n) ==
    /\ inflight[n].pc = "lookup"
    /\ inflight' = [ inflight EXCEPT
          ![n].existing = Looked(findByCanonicalUrlOrSourceUrl(docs,
                                     ItemOf(inflight[n]).canonicalUrl,
                                     ItemOf(inflight[n]).url)),
          ![n].pc = "write" ]
    /\ UNCHANGED <<tasks, docs, aliases, runs, now, last, surfaced,
                   normVars, statusVars, eftaVars>>

\* the collections and counters as the invocation sees them
StoreOf(task) ==
    [ docs |-> docs, aliases |-> aliases, threw |-> FALSE,
      newCount |-> task.newCount, updatedCount |-> task.updatedCount,
      aliasCount |-> task.aliasCount ]

\* await epsteinDocuments.update(existing.id, ...) with the lineage computed
\* from the record the lookup returned, or await epsteinDocuments.create(...)
WriteStep(n) ==
    /\ inflight[n].pc = "write"
    /\ IF inflight[n].existing.id # 0
       THEN /\ docs' = PersistExisting(StoreOf(inflight[n]), ItemOf(inflight[n]),
                                       inflight[n].existing, FALSE, now).docs
            /\ inflight' = [ inflight EXCEPT ![n] =
                  IF NeedsAlias(ItemOf(inflight[n]), inflight[n].existing)
                  THEN [ inflight[n] EXCEPT !.updatedCount = @ + 1, !.pc = "alias" ]
                  ELSE Advance([ inflight[n] EXCEPT !.updatedCount = @ + 1 ]) ]
       ELSE /\ \E lowId \in BOOLEAN :
                 docs' = PersistNew(StoreOf(inflight[n]), ItemOf(inflight[n]),
                                    now, lowId).docs
            /\ inflight' = [ inflight EXCEPT ![n] =
                  Advance([ inflight[n] EXCEPT !.newCount = @ + 1 ]) ]
    /\ UNCHANGED <<tasks, aliases, runs, now, last, surfaced,
                   normVars, statusVars, eftaVars>>

\* await urlAliases.upsert(...)
AliasStep(n) ==
    /\ inflight[n].pc = "alias"
    /\ aliases' = upsertAlias(aliases, ItemOf(inflight[n]).url,
                     [ documentId |-> inflight[n].existing.id,
                       discoverySource |-> ItemOf(inflight[n]).discoverySource ], now)
    /\ inflight' = [ inflight EXCEPT ![n] =
          Advance([ inflight[n] EXCEPT !.aliasCount = @ + 1 ]) ]
    /\ UNCHANGED <<tasks, docs, runs, now, last, surfaced, normVars, statusVars, eftaVars>>

\* await discoveryRuns.update(...) and the return of the result
ConcludeStep(n) ==
    /\ inflight[n].pc = "conclude"
    /\ runs' = updateRun(runs, inflight[n].run, Len(inflight[n].items),
                         inflight[n].newCount, inflight[n].updatedCount,
                         inflight[n].totalErrors, now)
    /\ inflight' = [ inflight EXCEPT ![n].pc = "done" ]
    /\ last' = [ op |-> "runDiscovery", run |-> inflight[n].run, returned |-> TRUE,
                 result |-> [ runId |-> inflight[n].run,
                              totalDiscovered |-> Len(inflight[n].items),
                              newDocuments |-> inflight[n].newCount,
                              existingUpdated |-> inflight[n].updatedCount,
                              aliasesCreated |-> inflight[n].aliasCount,
                              errors |-> inflight[n].totalErrors ] ]
    /\ UNCHANGED <<tasks, docs, aliases, now, surfaced, normVars, statusVars, eftaVars>>

NextRace ==
    \/ StartRun
    \/ \E n \in 1..Len(inflight) :
          LookupStep(n) \/ WriteStep(n) \/ AliasStep(n) \/ ConcludeStep(n)

SpecRace == InitRace /\ [][NextRace]_vars

\* the canonical URLs of the items of an invocation
CanonicalsIn(task) == { task.items[k].canonicalUrl : k \in 1..Len(task.items) }
RecordsOf(c) == { i \in 1..Len(docs) : docs[i].canonicalUrl = c }
AllReturned == \A n \in 1..Len(inflight) : inflight[n].pc = "done"

\* C16: when two runDiscovery invocations whose discoverers return the same
\* previously unseen URL interleave their persistence steps, the catalog ends
\* with exactly one record of that canonical URL: the second create fails and
\* that run counts the item as updated, not new.
C16_OneRecordAfterRace ==
    (Len(inflight) = 2 /\ AllReturned) =>
        \A c \in CanonicalsIn(inflight[1]) \cap CanonicalsIn(inflight[2]) :
            /\ Cardinality(RecordsOf(c)) = 1
            /\ inflight[1].newCount + inflight[2].newCount
                  <= Cardinality(CanonicalsIn(inflight[1]) \cup CanonicalsIn(inflight[2]))

\* the entry of lineage with the pair and firstSeen of e, if any
Keeps(lineage, e) ==
    \E j \in 1..Len(lineage) :
        /\ lineage[j].source = e.source
        /\ lineage[j].sourceId = e.sourceId
        /\ lineage[j].firstSeen = e.firstSeen

\* C17: discoveryLineage is append-only under every interleaving of two
\* persistence steps: an entry stored on a record for a (source, sourceId)
\* pair is in every later state of the record, with the same firstSeen.
C17_LineageAppendOnly ==
    [][ \A i \in 1..Len(docs) :
            \A j \in 1..Len(docs') :
                docs'[j].id = docs[i].id =>
                    \A k \in 1..Len(docs[i].discoveryLineage) :
                        Keeps(docs'[j].discoveryLineage, docs[i].discoveryLineage[k]) ]_vars

-----------------------------------------------------------------------------
(* processEpsteinDocument calls that overlap.  A call is taken in three
   steps: the first lookup, the upsert that marks the record, and the arrival
   of the server's answer with the store call that follows it; the steps of
   the calls in progress interleave. *)

MaxCalls == 2       \* processEpsteinDocument calls in progress together

OverlapUrls == { UrlPdf, UrlPdfHttp }
OverlapAnswers ==
    { Answer(200, "pdf", "application/pdf", "e1", NULL),
      Answer(304, "", "", NULL, NULL),
      Answer(403, "", "", NULL, NULL) }

\* the catalog before the overlapping calls: empty, or as an earlier
\* processEpsteinDocument of https://h/a.pdf left it
Processed ==
    processEpsteinDocument(<<>>, UrlPdf, "T",
        Answer(200, "pdf", "application/pdf", "e1", NULL), 1, FALSE).docs

InitOverlap ==
    /\ \/ docs = <<>> /\ now = 1
       \/ docs = Processed /\ now = 2
    /\ aliases = <<>> /\ runs = <<>>
    /\ last = [op |-> "none"]
    /\ surfaced = {}
    /\ NormIdle
    /\ StatusIdle
    /\ EftaIdle
    /\ NoneInFlight

\* processEpsteinDocument(url, title) is called
StartCall ==
    /\ Len(inflight) < MaxCalls
    /\ \E url \in OverlapUrls, title \in Titles :
         inflight' = Append(inflight, [ url |-> url, title |-> title,
                                        pc |-> "lookup", existing |-> NoRecord ])
    /\ now' = now + 1
    /\ UNCHANGED <<tasks, docs, aliases, runs, last, surfaced, normVars, statusVars, eftaVars>>

\* const existing = await epsteinDocuments.findBySourceUrl(url)
LookupDoc(n) ==
    /\ inflight[n].pc = "lookup"
    /\ inflight' = [ inflight EXCEPT
          ![n].existing = Looked(findBySourceUrl(docs, inflight[n].url)),
          ![n].pc = "mark" ]
    /\ UNCHANGED <<tasks, docs, aliases, runs, now, last, surfaced,
                   normVars, statusVars, eftaVars>>

\* await epsteinDocuments.upsertBySourceUrl(url, {status: 'processing'}, ...)
MarkDoc(n) ==
    /\ inflight[n].pc = "mark"
    /\ \E lowId \in BOOLEAN :
         docs' = MarkProcessing(docs, inflight[n].url, inflight[n].title, now, lowId)
    /\ inflight' = [ inflight EXCEPT ![n].pc = "fetch" ]
    /\ UNCHANGED <<tasks, aliases, runs, now, last, surfaced, normVars, statusVars, eftaVars>>

\* the collection as the first lookup of the call saw it: the record, or nothing
SeenBy(task) == IF task.existing.id # 0 THEN <<task.existing>> ELSE <<>>

\* the request carried If-None-Match or If-Modified-Since
Conditional(task) ==
    /\ task.existing.id # 0
    /\ (task.existing.httpEtag # NULL \/ task.existing.httpLastModified # NULL)

\* the answer arrives and the call runs to its return
FinishDoc(n) ==
    /\ inflight[n].pc = "fetch"
    /\ \E answer \in OverlapAnswers :
         /\ answer.status = 304 => Conditional(inflight[n])
         /\ docs' = processMarked(SeenBy(inflight[n]), Len(SeenBy(inflight[n])), docs,
                        docs[findBySourceUrl(docs, inflight[n].url)].id,
                        fetchWithConditional(answer),
                        inflight[n].url, inflight[n].title, answer, now).docs
         /\ last' = [ op |-> "processEpsteinDocument", url |-> inflight[n].url,
                      title |-> inflight[n].title, answer |-> answer,
                      outcome |-> processMarked(SeenBy(inflight[n]),
                                      Len(SeenBy(inflight[n])), docs,
                                      docs[findBySourceUrl(docs, inflight[n].url)].id,
                                      fetchWithConditional(answer),
                                      inflight[n].url, inflight[n].title,
                                      answer, now).outcome,
                      repeats |-> FALSE ]
    /\ inflight' = [ inflight EXCEPT ![n].pc = "done" ]
    /\ UNCHANGED <<tasks, aliases, runs, now, surfaced, normVars, statusVars, eftaVars>>

NextOverlap ==
    \/ StartCall
    \/ \E n \in 1..Len(inflight) : LookupDoc(n) \/ MarkDoc(n) \/ FinishDoc(n)

SpecOverlap == InitOverlap /\ [][NextOverlap]_vars

\* C19: once every processEpsteinDocument call in progress has returned - calls
\* of the same url that overlap and calls that take the 304 short-circuit
\* included - no record is left in status processing.
C19_NoneLeftProcessing ==
    (inflight # <<>> /\ AllReturned) =>
        \A i \in 1..Len(docs) : docs[i].status # "processing"


-----------------------------------------------------------------------------
(* runDiscovery step by step: every await of a discoverer is a step where the
   invocation waits, and the discoverer's return or exception is another *)

MaxOrdered == 1     \* runDiscovery invocations in a behaviour, one after another

\* the places of the three if-blocks of runDiscovery; AfterLast is the code
\* after the third
AfterLast == Len(DiscoverySources) + 1

\* every if-block entered from place k on, selected or not
NextBlock(sources, k) == IF k > Len(DiscoverySources) THEN AfterLast ELSE k

\* the first if-block from place k on whose condition
\* runAll || sources.includes(...) holds; AfterLast when there is none
NextSelected(sources, k) ==
    IF \E j \in k..Len(DiscoverySources) : Selected(sources, DiscoverySources[j])
    THEN CHOOSE j \in k..Len(DiscoverySources) :
            /\ Selected(sources, DiscoverySources[j])
            /\ \A i \in k..(j - 1) : ~Selected(sources, DiscoverySources[i])
    ELSE AfterLast

\* options.sources as callers may list them
OrderedSources ==
    { <<>>, <<"all">>, <<"ia-cdx">>, <<"ia-cdx", "hub-scrape">>,
      <<"sitemap-parse", "hub-scrape">>,
      <<"ia-cdx", "sitemap-parse", "hub-scrape">>, <<"sitemap-parse", "all">> }

Event(ev, src) == [ ev |-> ev, src |-> src ]

\* the invocation in progress, if any
Ordered == inflight[Len(inflight)]
InProgress == inflight # <<>> /\ Ordered.at <= AfterLast

\* runDiscovery up to the first if-block: the run record is created
StartOrdered ==
    /\ ~InProgress
    /\ Len(inflight) < MaxOrdered
    /\ \E sources \in OrderedSources :
         /\ runs' = createRun(runs, sources, [ sources |-> sources ], now)
         /\ inflight' = Append(inflight,
               [ run |-> Len(runs'), sources |-> sources,
                 at |-> NextSelected(sources, 1), running |-> "none",
                 g |-> [ allDiscovered |-> <<>>, bySource |-> {}, totalErrors |-> 0 ],
                 log |-> <<>> ])
    /\ now' = now + 1
    /\ UNCHANGED <<tasks, docs, aliases, last, surfaced, normVars, statusVars, eftaVars>>

\* await crawlHubPages(...), discoverFromSitemaps(...) or
\* discoverFromInternetArchive(...): the call is made, runDiscovery waits
InvokeDiscoverer ==
    /\ InProgress
    /\ Ordered.at <= Len(DiscoverySources)
    /\ Ordered.running = "none"
    /\ inflight' = [ inflight EXCEPT
          ![Len(inflight)].running = DiscoverySources[Ordered.at],
          ![Len(inflight)].log =
              Append(@, Event("invoke", DiscoverySources[Ordered.at])) ]
    /\ UNCHANGED <<tasks, catalogVars, normVars, statusVars, eftaVars>>

\* the awaited discoverer returns or throws; the try block or its catch runs
\* and control reaches the next selected if-block
SettleDiscoverer ==
    /\ InProgress
    /\ Ordered.running # "none"
    /\ \E o \in OutcomesOf(Ordered.running) :
         /\ inflight' = [ inflight EXCEPT
               ![Len(inflight)].running = "none",
               ![Len(inflight)].g = GatherOne(@, Ordered.running, o),
               ![Len(inflight)].at = NextSelected(Ordered.sources, Ordered.at + 1),
               ![Len(inflight)].log =
                   Append(@, Event(IF o.threw THEN "threw" ELSE "returned",
                                   Ordered.running)) ]
         /\ surfaced' = surfaced \cup
               { <<normalizeUrl(o.documents[i].url), Ordered.running,
                   o.documents[i].sourceHub>> : i \in 1..Len(o.documents) }
    /\ UNCHANGED <<tasks, docs, aliases, runs, now, last, normVars, statusVars, eftaVars>>

\* the invocation after deduplicateUrls, persistDiscoveries and
\* discoveryRuns.update ended as r
Persisted(deduplicated, r) ==
    /\ docs' = r.docs
    /\ aliases' = r.aliases
    /\ runs' = r.runs
    /\ last' = [ op |-> "runDiscovery", options |-> [ sources |-> Ordered.sources ],
                 merged |-> Ordered.g.allDiscovered, deduplicated |-> deduplicated,
                 returned |-> r.returned, result |-> r.result,
                 log |-> Append(Ordered.log, Event("persist", "none")) ]

\* deduplicateUrls(allDiscovered), then persistDiscoveries on its result
PersistDeduplicated(deduplicated, lowId) ==
    Persisted(deduplicated,
              PersistAndConclude(docs, aliases, runs, Ordered.g, deduplicated,
                                 NoFault, now, lowId))

\* the code after the third if-block
PersistGathered ==
    /\ InProgress
    /\ Ordered.at = AfterLast
    /\ Ordered.running = "none"
    /\ \E lowId \in BOOLEAN :
         PersistDeduplicated(deduplicateUrls(Ordered.g.allDiscovered), lowId)
    /\ inflight' = [ inflight EXCEPT
          ![Len(inflight)].at = AfterLast + 1,
          ![Len(inflight)].log = Append(@, Event("persist", "none")) ]
    /\ now' = now + 1
    /\ UNCHANGED <<tasks, surfaced, normVars, statusVars, eftaVars>>

NextOrder == StartOrdered \/ InvokeDiscoverer \/ SettleDiscoverer \/ PersistGathered

SpecOrder == Init /\ [][NextOrder]_vars

\* the events of kind ev in a log, as positions
EventsAt(log, ev) == { i \in 1..Len(log) : log[i].ev = ev }
Ended(log) == EventsAt(log, "returned") \cup EventsAt(log, "threw")

\* the discoverers were invoked in the order hub crawl, sitemap, archive
InFixedOrder(log) ==
    \A i, j \in EventsAt(log, "invoke") :
        i < j => IndexOf(DiscoverySources, log[i].src) < IndexOf(DiscoverySources, log[j].src)

\* a discoverer's end is the event right after its invocation: nothing else
\* started in between
OneAtATime(log) ==
    /\ \A i \in EventsAt(log, "invoke") :
          i < Len(log) => (i + 1) \in Ended(log) /\ log[i + 1].src = log[i].src
    /\ \A i \in Ended(log) :
          i > 1 /\ log[i - 1].ev = "invoke" /\ log[i - 1].src = log[i].src

OnlySelected(sources, log) ==
    \A i \in EventsAt(log, "invoke") : Selected(sources, log[i].src)

\* persistence is the last event, after every selected discoverer has ended
PersistLast(sources, log) ==
    \A p \in EventsAt(log, "persist") :
        /\ p = Len(log)
        /\ \A k \in 1..Len(DiscoverySources) :
              Selected(sources, DiscoverySources[k]) =>
                  \E i \in Ended(log) : i < p /\ log[i].src = DiscoverySources[k]

\* C21: whatever the order of options.sources, the selected discoverers are
\* invoked in the order hub crawl, sitemap, archive, each only after the one
\* before has returned or thrown, never two at a time, an unselected one
\* never, and persistence starts only after the last selected one has ended.
C21_FixedOrder ==
    \A n \in 1..Len(inflight) :
        /\ InFixedOrder(inflight[n].log)
        /\ OneAtATime(inflight[n].log)
        /\ OnlySelected(inflight[n].sources, inflight[n].log)
        /\ PersistLast(inflight[n].sources, inflight[n].log)

\* sources listed archive first: the hub crawl ran first and threw, the
\* archive ran after it, the sitemap never, and persistence followed
C21_Witness ==
    /\ inflight # <<>>
    /\ Ordered.sources = <<"ia-cdx", "hub-scrape">>
    /\ Ordered.log = << Event("invoke", "hub-scrape"), Event("threw", "hub-scrape"),
                        Event("invoke", "ia-cdx"), Event("returned", "ia-cdx"),
                        Event("persist", "none") >>


-----------------------------------------------------------------------------
(* deduplicateUrls on what the selected discoverers returned, merged in the
   order hub crawl, sitemap, archive *)

\* the canonical URLs occurring in the merged sequence
MergedCanonicals(merged) == { normalizeUrl(merged[i].url) : i \in 1..Len(merged) }

\* the first position of the merged sequence with canonical URL c
FirstWith(merged, c) ==
    CHOOSE i \in 1..Len(merged) :
        /\ normalizeUrl(merged[i].url) = c
        /\ \A j \in 1..(i - 1) : normalizeUrl(merged[j].url) # c

\* the output item d is the merged item m with its canonical URL added
Carries(d, m) ==
    /\ d.url = m.url
    /\ d.title = m.title
    /\ d.fileType = m.fileType
    /\ d.discoverySource = m.discoverySource
    /\ d.sourceHub = m.sourceHub

\* C22: deduplicateUrls returns exactly one item per distinct canonical URL of
\* the merged sequence, no two output items share a canonical URL, and each
\* item carries the raw url, title, fileType, source and origin hub of the
\* first merged item with its canonical URL.
C22_FirstSeenKept ==
    (last.op = "runDiscovery") =>
        /\ { last.deduplicated[i].canonicalUrl : i \in 1..Len(last.deduplicated) }
              = MergedCanonicals(last.merged)
        /\ \A i, j \in 1..Len(last.deduplicated) :
              last.deduplicated[i].canonicalUrl = last.deduplicated[j].canonicalUrl
                  => i = j
        /\ \A i \in 1..Len(last.deduplicated) :
              Carries(last.deduplicated[i],
                      last.merged[FirstWith(last.merged,
                                            last.deduplicated[i].canonicalUrl)])

\* the hub crawl, the sitemap and the archive all returned a.pdf, the archive
\* under its http URL: four merged items, two kept, a.pdf with the hub's data
C22_Witness ==
    /\ last.op = "runDiscovery"
    /\ Len(last.merged) = 4
    /\ Len(last.deduplicated) = 2
    /\ last.merged[4].url = UrlPdfHttp
    /\ last.merged[3].discoverySource = "sitemap-parse"
    /\ last.deduplicated[1].url = UrlPdf
    /\ last.deduplicated[1].discoverySource = "hub-scrape"


-----------------------------------------------------------------------------
(* The hub crawler: extractLinks, detectTotalPages and the loop of
   crawlHubPages.  The host token "h" stands for www.justice.gov; a page is
   the list of its anchors, each with its href, its text (a string, as a
   one-token sequence) and whether it is
   the pager's "Go to last page" anchor. *)

MaxDataSets == 1        \* data-set seed hubs (SEED_HUBS lists twelve)

DOJ_BASE == <<"https:", "/", "/", "h">>
EpsteinRoot == DOJ_BASE \o <<"/", "epstein">>
DisclosuresHub == EpsteinRoot \o <<"/", "doj-disclosures">>
DataSetName(n) ==
    CASE n = 1 -> "data-set-1-files"
      [] n = 2 -> "data-set-2-files"
      [] OTHER -> "data-set-3-files"
DataSetNames == { DataSetName(n) : n \in 1..3 }
DataSetPath(n) == <<"/", "epstein", "/", "doj-disclosures", "/", DataSetName(n)>>
SEED_HUBS ==
    <<EpsteinRoot, DisclosuresHub>> \o [ n \in 1..MaxDataSets |-> DOJ_BASE \o DataSetPath(n) ]

Anchor(href, text, lastPage) == [ href |-> href, text |-> text, lastPage |-> lastPage ]

\* rawHref.startsWith('http') ? rawHref : new URL(rawHref, DOJ_BASE).toString()
\* for an href that is absolute, starts with a path, or is a query only
Resolve(rawHref) ==
    IF rawHref[1] \in SchemeTokens THEN rawHref
    ELSE IF rawHref[1] = "/" THEN DOJ_BASE \o rawHref
    ELSE DOJ_BASE \o <<"/">> \o rawHref

\* fullUrl.includes('justice.gov')
IncludesJusticeGov(url) == \E i \in 1..Len(url) : url[i] = "h"

\* the segments that read epstein when lower-cased, and those that contain it
EpsteinSegments == { "epstein", "Epstein" }
MentionsEpstein(t) == t \in EpsteinSegments \cup { "epstein-indictment" }
SectionSegments == { "usao-sdny", "opa", "archive" }

\* ALLOWLIST_PATTERNS.some(pattern => pattern.test(href))
isRelevantUrl(href) ==
    \/ \E i \in 1..(Len(href) - 2) :
          href[i] = "/" /\ href[i + 1] \in EpsteinSegments /\ href[i + 2] = "/"
    \/ \E i \in 1..(Len(href) - 3) :
          /\ href[i] = "/" /\ href[i + 1] \in SectionSegments /\ href[i + 2] = "/"
          /\ \E k \in (i + 3)..Len(href) : MentionsEpstein(href[k])

\* url.includes('?page=')
IncludesPageQuery(url) ==
    \E i \in 1..(Len(url) - 2) : url[i] = "?" /\ url[i + 1] = "page" /\ url[i + 2] = "="

\* the anchor texts that contain 'data set' or 'view all' when lower-cased
ListingTexts == { <<"Data Set 1">>, <<"View all">> }
ListingSegments == { "disclosures", "releases", "filings", "documents" }

\* fullUrl.match(/\/(disclosures|releases|filings|documents)\/?$/)
EndsAsListing(url) ==
    \/ Len(url) >= 2 /\ url[Len(url)] \in ListingSegments /\ url[Len(url) - 1] = "/"
    \/ /\ Len(url) >= 3 /\ url[Len(url)] = "/"
       /\ url[Len(url) - 1] \in ListingSegments /\ url[Len(url) - 2] = "/"

isLikelyHub(fullUrl, linkText) ==
    IncludesPageQuery(fullUrl) \/ linkText \in ListingTexts \/ EndsAsListing(fullUrl)

\* linkText || fullUrl.split('/').pop()... : the text, else the last segment
TitleOr(linkText, fullUrl) == IF linkText # <<>> THEN linkText ELSE <<Last(fullUrl)>>

DocumentOf(fullUrl, linkText, sourceUrl, fileType) ==
    [ url |-> fullUrl, title |-> TitleOr(linkText, fullUrl),
      sourceHub |-> sourceUrl, fileType |-> fileType ]

\* the body of the first each() of extractLinks after seen.add(normalized):
\* what becomes of the link.  A PDF link is pushed as a document before
\* isRelevantUrl is asked.
Classify(fullUrl, linkText) ==
    IF classifyFileType(fullUrl) = "pdf" THEN "pdf"
    ELSE IF ~isRelevantUrl(fullUrl) THEN "none"
    ELSE IF isLikelyHub(fullUrl, linkText) THEN "hub"
    ELSE "html"

\* the anchors with their hrefs resolved
Resolved(html) ==
    [ i \in 1..Len(html) |-> [ url |-> Resolve(html[i].href), text |-> html[i].text ] ]

\* the anchors that pass `if (seen.has(normalized)) return`: on justice.gov
\* and the first of their normalized URL among those on justice.gov
PastSeen(as) ==
    { i \in 1..Len(as) :
        /\ IncludesJusticeGov(as[i].url)
        /\ \A j \in 1..(i - 1) :
              ~(IncludesJusticeGov(as[j].url)
                  /\ normalizeUrl(as[j].url) = normalizeUrl(as[i].url)) }

\* the first each(): every anchor with what became of it
EachAnchor(as, past) ==
    [ i \in 1..Len(as) |->
        [ url |-> as[i].url, text |-> as[i].text,
          kind |-> IF i \in past THEN Classify(as[i].url, as[i].text) ELSE "none" ] ]

DocumentsOf(each, sourceUrl) ==
    [ k \in 1..Len(each) |-> DocumentOf(each[k].url, each[k].text, sourceUrl, each[k].kind) ]
UrlsOf(each) == [ k \in 1..Len(each) |-> each[k].url ]
PushedBy(each, sourceUrl) ==
    [ documents |-> DocumentsOf(SelectSeq(each, LAMBDA a : a.kind \in {"pdf", "html"}),
                                sourceUrl),
      hubs |-> UrlsOf(SelectSeq(each, LAMBDA a : a.kind = "hub")) ]
Marked(as) == Only({ EachAnchor(as, past) : past \in { PastSeen(as) } })
EachAnchors(as, sourceUrl) == Only({ PushedBy(each, sourceUrl) : each \in { Marked(as) } })

\* the second each(), over a[href*="?page="]: the pagination links that
\* are on justice.gov and allow-listed, in page order
PaginationHubs(anchors) ==
    SelectSeq([ i \in 1..Len(anchors) |-> Resolve(anchors[i].href) ],
              LAMBDA u : IncludesPageQuery(u) /\ IncludesJusticeGov(u) /\ isRelevantUrl(u))

\* a[href*="?page="] selects on the attribute as written
WithPageQuery(anchors) == SelectSeq(anchors, LAMBDA a : IncludesPageQuery(a.href))

WithPagination(acc, anchors) ==
    [ documents |-> acc.documents, hubs |-> acc.hubs \o PaginationHubs(anchors) ]

extractLinks(html, sourceUrl) ==
    Only({ WithPagination(EachAnchors(as, sourceUrl), WithPageQuery(html)) :
             as \in { Resolved(html) } })

\* /[?&]page=(\d+)/ on href: the position of the first digit, 0 without match
PageMatch(href) ==
    FirstOf({ i \in 4..Len(href) :
                /\ href[i - 3] \in {"?", "&"} /\ href[i - 2] = "page" /\ href[i - 1] = "="
                /\ IsDigit(href[i]) })
\* match[1]: the digits from there on
PageDigits(href, i) ==
    SubSeq(href, i, CHOOSE j \in i..Len(href) :
                        /\ \A k \in i..j : IsDigit(href[k])
                        /\ (j = Len(href) \/ ~IsDigit(href[j + 1])))
\* parseInt(match[1], 10) + 1
PageCount(href) == parseInt(PageDigits(href, PageMatch(href))) + 1

\* the each() of detectTotalPages: the greatest page count a pagination link
\* names, 1 when there is none
GreatestPage(anchors) ==
    IF \E i \in 1..Len(anchors) : PageMatch(anchors[i].href) # 0
    THEN MaxOf({1} \cup { PageCount(anchors[i].href) :
                            i \in { k \in 1..Len(anchors) : PageMatch(anchors[k].href) # 0 } })
    ELSE 1

\* $('a[title="Go to last page"]').attr('href'): of the first such anchor
LastLink(html) == FirstOf({ i \in 1..Len(html) : html[i].lastPage })

detectTotalPages(html) ==
    IF LastLink(html) # 0 /\ PageMatch(html[LastLink(html)].href) # 0
    THEN PageCount(html[LastLink(html)].href)
    ELSE GreatestPage(WithPageQuery(html))

\* hubUrl.includes('data-set-') && hubUrl.includes('-files')
IsDataSetHub(hubUrl) == \E i \in 1..Len(hubUrl) : hubUrl[i] \in DataSetNames

\* `${hubUrl}?page=${page}`
PageUrl(hubUrl, page) == hubUrl \o <<"?", "page", "=">> \o NumberToString(page)

\* hubQueue.push(hub) for every hub not yet visited
PushHubs(hubQueue, hubs, visitedHubs) ==
    hubQueue \o SelectSeq(hubs, LAMBDA h : normalizeUrl(h) \notin visitedHubs)

\* hubQueue.length > 0 && visitedHubs.size <= maxHubs
LoopGoesOneMore(c) == c.hubQueue # <<>> /\ Cardinality(c.visitedHubs) <= c.maxHubs
\* the condition of the while loop
LoopGoes(c) == c.hubQueue # <<>> /\ Cardinality(c.visitedHubs) < c.maxHubs


-----------------------------------------------------------------------------
(* crawlHubPages step by step: every fetchPage is a step.  The call's
   local variables are the one entry of inflight; fetches, shifted and queued
   are history: the requests made, the URLs taken off hubQueue and the URLs
   ever put on it, in order. *)

MaxHubs == 4            \* options.maxHubs is at most this
MaxListingPages == 3    \* pages of a data-set listing on the site

ReleasesPath == <<"/", "epstein", "/", "releases">>
FilesPath == <<"/", "epstein", "/", "files", "/">>
PageQuery(page) == <<"?", "page", "=">> \o NumberToString(page)

\* the anchor of the file numbered num on a listing
FileAnchor(num) ==
    Anchor(DOJ_BASE \o FilesPath \o <<"EFTA">>
               \o padStart(NumberToString(num), PAD_WIDTH, "0") \o <<".pdf">>,
           <<"File">>, FALSE)

RootPage ==
    << Anchor(<<"/", "epstein", "/", "doj-disclosures">>, <<"View all">>, FALSE),
       Anchor(DOJ_BASE \o <<"/", "foia", "/", "report.pdf">>, <<"FOIA log">>, FALSE),
       Anchor(ReleasesPath, <<"Press releases">>, FALSE) >>
DisclosuresPage ==
    << Anchor(DataSetPath(1), <<"Data Set 1">>, FALSE),
       Anchor(<<"/", "epstein", "/", "about">>, <<"About">>, FALSE),
       Anchor(<<"https:", "/", "/", "x", "/", "epstein", "/", "mirror">>, <<"Mirror">>, FALSE),
       Anchor(<<"/", "news">>, <<"News">>, FALSE),
       Anchor(PageQuery(1), <<"Next">>, FALSE) >>
\* page p (from 0) of a data-set listing: two files, the pager
ListingPage(path, p) ==
    IF p >= MaxListingPages THEN <<>>
    ELSE << FileAnchor(2 * p + 1), FileAnchor(2 * p + 2) >>
         \o (IF p + 1 < MaxListingPages
             THEN << Anchor(path \o PageQuery(p + 1), <<"Next">>, FALSE) >> ELSE <<>>)
         \o << Anchor(path \o PageQuery(MaxListingPages - 1), <<"Last">>, TRUE) >>
\* page p of the press releases: every page links to an older one
ReleasesPage(p) ==
    << Anchor(ReleasesPath \o PageQuery(p + 1), <<"Older">>, FALSE),
       Anchor(<<"/", "epstein", "/", "statement">>, <<"Statement">>, FALSE) >>

\* the page number a requested URL names
RequestedPage(url) == IF PageMatch(url) = 0 THEN 0 ELSE PageCount(url) - 1

\* what the site serves at url
SitePage(url) ==
    CASE Before(url, "?") = EpsteinRoot -> RootPage
      [] Before(url, "?") = DisclosuresHub -> DisclosuresPage
      [] Before(url, "?") = DOJ_BASE \o ReleasesPath -> ReleasesPage(RequestedPage(url))
      [] IsDataSetHub(Before(url, "?")) ->
            ListingPage(SubSeq(Before(url, "?"), Len(DOJ_BASE) + 1, Len(Before(url, "?"))),
                        RequestedPage(url))
      [] OTHER -> <<>>

\* fetchPage(url): null when the request failed, else the page
Unreachable == [ ok |-> FALSE, html |-> <<>> ]
Fetched(html) == [ ok |-> TRUE, html |-> html ]
AnswersAt(url) == { Unreachable, Fetched(SitePage(url)) }

CrawlOptions == [ maxHubs : 0..MaxHubs, maxPagesPerHub : {1, 2, DEFAULT_MAX_PAGES_PER_HUB} ]

Crawl == inflight[1]
Crawling == inflight # <<>> /\ Crawl.pc # "done"

Request(url, ok, via, hubUrl, page, extraPages) ==
    [ url |-> url, ok |-> ok, via |-> via, hub |-> hubUrl,
      page |-> page, extraPages |-> extraPages ]

\* crawlHubPages(options) up to the while loop
StartCrawl ==
    /\ inflight = <<>>
    /\ \E options \in CrawlOptions :
         inflight' = << [ pc |-> "loop",
                          maxHubs |-> options.maxHubs,
                          maxPagesPerHub |-> options.maxPagesPerHub,
                          allDocuments |-> <<>>, seenUrls |-> {},
                          hubQueue |-> SEED_HUBS, visitedHubs |-> {}, errors |-> 0,
                          hubUrl |-> <<>>, pdfDocs |-> <<>>, extraPdfs |-> <<>>,
                          totalPages |-> 0, page |-> 0, extraPages |-> 0,
                          fetches |-> <<>>, shifted |-> <<>>, queued |-> SEED_HUBS ] >>
    /\ UNCHANGED <<tasks, catalogVars, normVars, statusVars, eftaVars>>

\* hubQueue.shift() gave a hub that was visited before: continue
SkipVisited ==
    /\ Crawling /\ Crawl.pc = "loop" /\ LoopGoes(Crawl)
    /\ normalizeUrl(Crawl.hubQueue[1]) \in Crawl.visitedHubs
    /\ inflight' = [ inflight EXCEPT ![1].hubQueue = Tail(@),
                                     ![1].shifted = Append(@, Crawl.hubQueue[1]) ]
    /\ UNCHANGED <<tasks, catalogVars, normVars, statusVars, eftaVars>>

\* the loop `if (!seenUrls.has(normalized)) {...}` over documents
Unseen(c, documents) ==
    AddUnseen([ allDocuments |-> c.allDocuments, seenUrls |-> c.seenUrls,
                pushed |-> <<>> ], documents)
AddDocuments(c, documents) ==
    Only({ [ c EXCEPT !.allDocuments = u.allDocuments, !.seenUrls = u.seenUrls ] :
             u \in { Unseen(c, documents) } })
\* the same loop in the extra-page loop: extraPdfs takes what is pushed
AddExtra(c, documents) ==
    Only({ [ c EXCEPT !.allDocuments = u.allDocuments, !.seenUrls = u.seenUrls,
                      !.extraPdfs = @ \o u.pushed ] :
             u \in { Unseen(c, documents) } })

\* the inference from pdfDocs and extraPdfs, its result added
InferRemaining(c) ==
    [ AddDocuments(c, inferEftaUrls(c.pdfDocs \o c.extraPdfs, c.totalPages,
                                    IF Len(c.pdfDocs) = 0 THEN DEFAULT_PER_PAGE
                                    ELSE Len(c.pdfDocs),
                                    c.hubUrl))
        EXCEPT !.pc = "loop" ]

\* the data-set branch up to the first extra page
EnterDataSet(c, documents, totalPages) ==
    IF ExtraPages(totalPages, c.maxPagesPerHub) >= 1
    THEN [ c EXCEPT !.pc = "extra", !.pdfDocs = OnlyPdf(documents), !.extraPdfs = <<>>,
                    !.totalPages = totalPages, !.page = 1,
                    !.extraPages = ExtraPages(totalPages, c.maxPagesPerHub) ]
    ELSE InferRemaining([ c EXCEPT !.pdfDocs = OnlyPdf(documents), !.extraPdfs = <<>>,
                                   !.totalPages = totalPages, !.page = 1,
                                   !.extraPages = ExtraPages(totalPages, c.maxPagesPerHub) ])

\* the iteration after fetchPage returned the page: links is what
\* extractLinks found on it
Enqueued(c, hubs) ==
    [ c EXCEPT !.hubQueue = PushHubs(@, hubs, c.visitedHubs),
               !.queued = PushHubs(@, hubs, c.visitedHubs) ]
HubFetched(c, links, totalPages) ==
    Only({ IF IsDataSetHub(d.hubUrl) THEN EnterDataSet(d, links.documents, totalPages)
           ELSE d :
             d \in { Enqueued(AddDocuments(c, links.documents), links.hubs) } })
HubPage(c, html) ==
    Only({ HubFetched(c, links, detectTotalPages(html)) :
             links \in { extractLinks(html, c.hubUrl) } })

\* hubQueue.shift(), visitedHubs.add(normalizedHub)
Shift(c) ==
    [ c EXCEPT !.hubUrl = c.hubQueue[1],
               !.hubQueue = Tail(@),
               !.shifted = Append(@, c.hubQueue[1]),
               !.visitedHubs = @ \cup { normalizeUrl(c.hubQueue[1]) } ]

\* one iteration of the while loop for a hub not visited before, up to its
\* first extra page
HubAnswered(c, answer) ==
    IF ~answer.ok
    THEN [ c EXCEPT !.errors = @ + 1,
                    !.fetches = Append(@, Request(c.hubUrl, FALSE, "hub", c.hubUrl, 0, 0)) ]
    ELSE HubPage([ c EXCEPT !.fetches =
                       Append(@, Request(c.hubUrl, TRUE, "hub", c.hubUrl, 0, 0)) ],
                 answer.html)
VisitHub ==
    /\ Crawling /\ Crawl.pc = "loop" /\ LoopGoes(Crawl)
    /\ normalizeUrl(Crawl.hubQueue[1]) \notin Crawl.visitedHubs
    /\ \E answer \in AnswersAt(Crawl.hubQueue[1]), c \in { Shift(Crawl) } :
         inflight' = << HubAnswered(c, answer) >>
    /\ UNCHANGED <<tasks, catalogVars, normVars, statusVars, eftaVars>>

\* the body of the extra-page loop after fetchPage(pageUrl) answered
NextExtra(c) ==
    IF c.page + 1 > c.extraPages THEN InferRemaining(c) ELSE [c EXCEPT !.page = @ + 1]
ExtraAnswered(c, answer) ==
    IF ~answer.ok THEN InferRemaining(c)
    ELSE Only({ NextExtra(d) :
                  d \in { AddExtra(c, extractLinks(answer.html, c.hubUrl).documents) } })
FetchExtraPage ==
    /\ Crawling /\ Crawl.pc = "extra"
    /\ \E answer \in AnswersAt(PageUrl(Crawl.hubUrl, Crawl.page)) :
         inflight' = << ExtraAnswered(
               [ Crawl EXCEPT !.fetches =
                   Append(@, Request(PageUrl(Crawl.hubUrl, Crawl.page), answer.ok, "page",
                                     Crawl.hubUrl, Crawl.page, Crawl.extraPages)) ],
               answer) >>
    /\ UNCHANGED <<tasks, catalogVars, normVars, statusVars, eftaVars>>

\* the loop condition fails: the result is returned
FinishCrawl ==
    /\ Crawling /\ Crawl.pc = "loop" /\ ~LoopGoes(Crawl)
    /\ inflight' = [ inflight EXCEPT ![1].pc = "done" ]
    /\ last' = [ op |-> "crawlHubPages",
                 result |-> [ documents |-> Crawl.allDocuments,
                              hubsCrawled |-> Cardinality(Crawl.visitedHubs),
                              errors |-> Crawl.errors ] ]
    /\ UNCHANGED <<tasks, docs, aliases, runs, now, surfaced, normVars, statusVars, eftaVars>>

NextHub == StartCrawl \/ SkipVisited \/ VisitHub \/ FetchExtraPage \/ FinishCrawl

SpecHub == Init /\ [][NextHub]_vars


\* C23: the allow-list is applied to every link before it is classified: no
\* URL that fails the allow-list is emitted as a document, PDF or not, or
\* put on the hub queue.
C23_AllowListFirst ==
    inflight # <<>> =>
        /\ \A i \in 1..Len(Crawl.allDocuments) : isRelevantUrl(Crawl.allDocuments[i].url)
        /\ \A i \in (Len(SEED_HUBS) + 1)..Len(Crawl.queued) : isRelevantUrl(Crawl.queued[i])


\* the normalized URLs of the hubs fetched, in order
HubRequests(c) == SelectSeq(c.fetches, LAMBDA r : r.via = "hub")

\* at most maxHubs hubs visited; hubs leave the queue in the order they
\* entered it; no normalized hub URL is fetched as a hub twice; a crawl that
\* has stopped has an empty queue or a spent budget
BoundedFifo(c) ==
    /\ Cardinality(c.visitedHubs) <= c.maxHubs
    /\ Len(HubRequests(c)) = Cardinality(c.visitedHubs)
    /\ c.shifted \o c.hubQueue = c.queued
    /\ \A i, j \in 1..Len(HubRequests(c)) :
          normalizeUrl(HubRequests(c)[i].url) = normalizeUrl(HubRequests(c)[j].url) => i = j
    /\ c.pc = "done" => (c.hubQueue = <<>> \/ Cardinality(c.visitedHubs) = c.maxHubs)

\* the crawl is one async function whose awaits (a timer, a request with a
\* 30 s timeout) all settle: a step that is possible is taken
SpecHubLive == Init /\ [][NextHub]_vars /\ WF_vars(NextHub)

\* C26: in every state of a hub crawl at most maxHubs hubs are visited, hubs
\* are dequeued in FIFO order and no normalized hub URL is visited twice, and
\* the crawl terminates on any link graph, an endless one included: it stops
\* once the queue is empty or the hub budget is reached.
C26_BoundedFifoTerminates ==
    /\ [](inflight # <<>> => BoundedFifo(Crawl))
    /\ <>(inflight # <<>> /\ Crawl.pc = "done")

\* a crawl with the greatest maxHubs that stopped on its budget with hubs still queued,
\* among them a further page of the endless press-release listing, after
\* having skipped a hub it met a second time
C26_Witness ==
    /\ inflight # <<>> /\ Crawl.pc = "done"
    /\ Crawl.maxHubs = MaxHubs
    /\ Cardinality(Crawl.visitedHubs) = MaxHubs
    /\ Crawl.hubQueue # <<>>
    /\ \E i \in 1..Len(Crawl.hubQueue) :
          /\ Before(Crawl.hubQueue[i], "?") = DOJ_BASE \o ReleasesPath
          /\ IncludesPageQuery(Crawl.hubQueue[i])
    /\ Len(Crawl.shifted) > MaxHubs


\* url requests a page of the listing at hubUrl
PageOfListing(url, hubUrl) ==
    Before(url, "?") = Before(hubUrl, "?") /\ IncludesPageQuery(url)

\* the extra-page requests made for the k-th hub visit: those between the
\* k-th hub request and the next
ExtraOfVisit(c, n) ==
    { i \in (n + 1)..Len(c.fetches) :
        /\ c.fetches[i].via = "page"
        /\ \A j \in (n + 1)..i : c.fetches[j].via = "page" }

ExtraPagesBounded ==
    inflight # <<>> =>
        \A n \in 1..Len(Crawl.fetches) :
            Crawl.fetches[n].via = "hub" =>
                /\ \A i \in ExtraOfVisit(Crawl, n) :
                      /\ Cardinality(ExtraOfVisit(Crawl, n)) <= Crawl.fetches[i].extraPages
                      /\ (~Crawl.fetches[i].ok /\ i < Len(Crawl.fetches))
                            => Crawl.fetches[i + 1].via = "hub"

\* C25: every failed page fetch of a crawl, of a seed hub, a discovered hub
\* or an extra pagination page, adds one to the error tally crawlHubPages
\* returns, and the crawl goes on to return the documents gathered.
C25_EveryFailureTallied ==
    inflight # <<>> =>
        /\ Crawl.errors = Cardinality({ i \in 1..Len(Crawl.fetches) : ~Crawl.fetches[i].ok })
        /\ (Crawl.pc = "done" =>
              /\ last.result.errors = Crawl.errors
              /\ last.result.documents = Crawl.allDocuments)


-----------------------------------------------------------------------------
(* The status a 304 leaves behind *)

RestorableStatuses == { "pending", "indexed", "needs_ocr", "error" }

\* the status of the record with this source URL, NULL when there is none
StatusOf(ds, url) ==
    IF findBySourceUrl(ds, url) = 0 THEN NULL ELSE Stored(ds, url).status

\* C27: when processEpsteinDocument is answered 304 for a record that was
\* pending, indexed, needs_ocr or error immediately before the call, the
\* record has that same status when the call returns, not processing.
C27_PriorStatusRestored ==
    [][ (/\ last'.op = "processEpsteinDocument"
         /\ last' # last
         /\ last'.answer.status = 304
         /\ StatusOf(docs, last'.url) \in RestorableStatuses)
            => StatusOf(docs', last'.url) = StatusOf(docs, last'.url) ]_vars

\* a record that needed OCR, or had failed, got a 304 and kept its status
C27_Witness ==
    /\ last.op = "processEpsteinDocument"
    /\ last.answer.status = 304
    /\ StatusOf(docs, last.url) \in { "needs_ocr", "error" }
    /\ Stored(docs, last.url).lastFetchedAt = now - 1
    /\ Stored(docs, last.url).createdAt < now - 1


-----------------------------------------------------------------------------
(* The content class used for extraction *)

\* the class the response header names, the URL extension deciding only when
\* the header names neither PDF nor HTML
HeaderFirstClass(contentType, url) ==
    IF contentType \in PdfContentTypes THEN "pdf"
    ELSE IF contentType \in HtmlContentTypes THEN "html"
    ELSE IF EndsWithPdf(url) THEN "pdf"
    ELSE "unsupported"

\* the text and file type a full extraction of that class stores
StoredAs(class, body) ==
    CASE class = "pdf" ->
            [ fileType |-> "pdf", text |-> extractPdfText(body).text ]
      [] class = "html" ->
            [ fileType |-> "html", text |-> extractHtmlText(body).text ]
      [] OTHER -> [ fileType |-> "pdf", text |-> "" ]

\* what the record holds of it
StoredOf(d) ==
    [ fileType |-> d.fileType,
      text |-> IF d.rawText = NoTextPlaceholder THEN "" ELSE d.rawText ]

\* C28: after a full extraction the content was extracted as the class its
\* content-type header names (PDF or HTML); the URL extension decides only
\* when the header names neither, so a .pdf URL answered as text/html is
\* extracted as HTML.
C28_HeaderDecides ==
    (last.op = "processEpsteinDocument" /\ last.outcome = "extracted") =>
        StoredOf(Stored(docs, last.url))
            = StoredAs(HeaderFirstClass(last.answer.contentType, last.url),
                       last.answer.body)


-----------------------------------------------------------------------------
(* URL aliases *)

\* the deduplicated items of a run whose discoverers ended as outcomes
ItemsOf(outcomes) ==
    deduplicateUrls(
        Gather([ allDiscovered |-> <<>>, bySource |-> {}, totalErrors |-> 0 ],
               1, outcomes).allDiscovered)

\* the item matches a record of ds and is spelt differently from both of its URLs
AliasDue(ds, item) ==
    /\ findByCanonicalUrlOrSourceUrl(ds, item.canonicalUrl, item.url) # 0
    /\ item.url # ds[findByCanonicalUrlOrSourceUrl(ds, item.canonicalUrl, item.url)].sourceUrl
    /\ item.url # ds[findByCanonicalUrlOrSourceUrl(ds, item.canonicalUrl, item.url)].canonicalUrl

\* the alias URLs an upsert at time t wrote
UpsertedAt(as, t) == { as[k].aliasUrl : k \in { j \in 1..Len(as) : as[j].lastSeen = t } }

\* a run that returned upserted the aliases that were due, and no other; the
\* aliases there were keep everything but lastSeen
AliasesAsDue ==
    /\ UpsertedAt(aliases', now)
         = { it.url : it \in { x \in Elems(ItemsOf(last'.outcomes)) : AliasDue(docs, x) } }
    /\ last'.result.aliasesCreated = Cardinality(UpsertedAt(aliases', now))
    /\ Len(aliases') >= Len(aliases)
    /\ \A k \in 1..Len(aliases) : SameExcept(aliases[k], aliases'[k], {"lastSeen"})

\* no two aliases share an aliasUrl, and every alias points at a record
AliasesSound ==
    /\ \A i, j \in 1..Len(aliases) :
          aliases[i].aliasUrl = aliases[j].aliasUrl => i = j
    /\ \A i \in 1..Len(aliases) : HasId(docs, aliases[i].documentId)

MaxAliasRuns == 3

\* the sources option of the runs
AliasSources == { <<"hub-scrape">>, <<"ia-cdx">> }

\* one runDiscovery call after another, each returning before the next starts
RunInSequence ==
    /\ now <= MaxAliasRuns
    /\ \E sources \in AliasSources, lowId \in BOOLEAN :
         \E outcomes \in OutcomeChoices(sources) :
            AfterDiscovery([ sources |-> sources ], outcomes, NoFault,
                runDiscovery(docs, aliases, runs, [ sources |-> sources ],
                             outcomes, NoFault, now, lowId))
    /\ now' = now + 1
    /\ UNCHANGED <<tasks, normVars, statusVars, eftaVars, inflight>>

NextAlias == RunInSequence

SpecAlias == Init /\ [][NextAlias]_vars

\* C29: persistence upserts a UrlAlias for a deduplicated item exactly when the
\* item matches an existing record and its raw URL differs from that record's
\* sourceUrl and canonicalUrl; in every state reached by sequential runs no two
\* aliases share an aliasUrl and every alias references an existing record; a
\* repeat discovery of an alias URL changes nothing of the alias but lastSeen.
C29_AliasWhenDifferent ==
    /\ []AliasesSound
    /\ [][ (last'.op = "runDiscovery" /\ now' = now + 1 /\ runs' # runs
            /\ last'.returned) => AliasesAsDue ]_vars

\* an alias was first written by one run and refreshed by a later one
C29_Witness ==
    /\ last.op = "runDiscovery"
    /\ last.result.aliasesCreated >= 1
    /\ \E k \in 1..Len(aliases) :
          /\ aliases[k].lastSeen = now - 1
          /\ aliases[k].firstSeen < aliases[k].lastSeen
          /\ aliases[k].aliasUrl # ById(docs, aliases[k].documentId).sourceUrl


-----------------------------------------------------------------------------
(* The task queue: taskQueue.add, claimNext, complete and fail, with the    *)
(* workers' polls overlapping.  A document of the collection is named by    *)
(* its position; exists is false once it was deleted.  version stands for   *)
(* the update time Firestore keeps of a document, by which a transaction    *)
(* notices that a document it read was written meanwhile; claims counts the *)
(* moves of the task from pending to processing.                            *)

MaxTasks == 2       \* tasks added in a behaviour
MaxClaims == 2      \* claimNext calls in a behaviour

\* two of the queues the workers poll
QUEUES == { "epstein-process", "epstein-discovery" }

\* taskQueue.add
addTask(ts, queue, removeOnComplete, t) ==
    Append(ts, [ id |-> Len(ts) + 1, queue |-> queue, status |-> "pending",
                 createdAt |-> t, startedAt |-> NoTime, completedAt |-> NoTime,
                 removeOnComplete |-> removeOnComplete,
                 exists |-> TRUE, version |-> 1, claims |-> 0 ])

\* where('queue', '==', queue).where('status', '==', 'pending')
PendingIn(ts, queue) ==
    { i \in 1..Len(ts) : ts[i].exists /\ ts[i].queue = queue /\ ts[i].status = "pending" }

\* orderBy('createdAt', 'asc').limit(1): the document the query returns, 0 when
\* the snapshot is empty
OldestPending(ts, queue) ==
    IF PendingIn(ts, queue) = {} THEN 0
    ELSE CHOOSE i \in PendingIn(ts, queue) :
            \A j \in PendingIn(ts, queue) : ts[i].createdAt <= ts[j].createdAt

\* a write that never conflicts: the update of a check made outside a transaction
ConflictsNever(task, seen) == FALSE

\* the document was written after the transaction read it
Conflicts(task, seen) == task.version # seen

\* !data || data.status !== 'pending'
NotClaimable(task) == ~task.exists \/ task.status # "pending"

\* tx.update(ref, { status: 'processing', startedAt: new Date() })
claimUpdate(ts, ref, t) ==
    [ ts EXCEPT ![ref].status = "processing", ![ref].startedAt = t,
                ![ref].version = @ + 1, ![ref].claims = @ + 1 ]

\* the local variables of a claimNext call, and of the poll that made it
Claim(queue, pc, ref, seen, got, attempts) ==
    [ queue |-> queue, pc |-> pc, ref |-> ref, seen |-> seen, got |-> got,
      attempts |-> attempts ]

\* a caller of taskQueue.add enqueues a task
AddTask ==
    /\ Len(tasks) < MaxTasks
    /\ \E queue \in QUEUES, removeOnComplete \in BOOLEAN :
          tasks' = addTask(tasks, queue, removeOnComplete, now)
    /\ now' = now + 1
    /\ UNCHANGED <<docs, aliases, runs, last, surfaced,
                   normVars, statusVars, eftaVars, inflight>>

\* claimNext up to the end of its query: an empty snapshot returns null
QueryPending ==
    /\ Len(inflight) < MaxClaims
    /\ \E queue \in QUEUES :
          inflight' = Append(inflight,
              IF OldestPending(tasks, queue) = 0
              THEN Claim(queue, "returned", 0, 0, 0, 0)
              ELSE Claim(queue, "tx", OldestPending(tasks, queue), 0, 0, 0))
    /\ UNCHANGED <<tasks, catalogVars, normVars, statusVars, eftaVars>>

\* the transaction function up to its return: tx.get(ref) and the status test;
\* a document that is gone or no longer pending makes claimNext return null
TxGet ==
    \E n \in 1..Len(inflight) :
        /\ inflight[n].pc = "tx"
        /\ inflight' =
              [ inflight EXCEPT ![n] =
                  IF NotClaimable(tasks[@.ref])
                  THEN [ @ EXCEPT !.pc = "returned", !.attempts = @ + 1 ]
                  ELSE [ @ EXCEPT !.pc = "commit", !.attempts = @ + 1,
                                  !.seen = tasks[inflight[n].ref].version ] ]
        /\ UNCHANGED <<tasks, catalogVars, normVars, statusVars, eftaVars>>

\* the commit of the transaction: the update is applied when the document is
\* as it was read, and claimNext returns the task; otherwise the transaction
\* function runs again
TxCommit ==
    \E n \in 1..Len(inflight) :
        /\ inflight[n].pc = "commit"
        /\ IF Conflicts(tasks[inflight[n].ref], inflight[n].seen)
           THEN /\ inflight' = [ inflight EXCEPT ![n].pc = "tx" ]
                /\ UNCHANGED <<tasks, now>>
           ELSE /\ tasks' = claimUpdate(tasks, inflight[n].ref, now)
                /\ inflight' = [ inflight EXCEPT ![n].pc = "claimed",
                                                 ![n].got = inflight[n].ref ]
                /\ now' = now + 1
        /\ UNCHANGED <<docs, aliases, runs, last, surfaced,
                       normVars, statusVars, eftaVars>>

\* taskQueue.complete
completeTask(ts, id, t) ==
    IF ts[id].removeOnComplete
    THEN [ ts EXCEPT ![id].exists = FALSE, ![id].version = @ + 1 ]
    ELSE [ ts EXCEPT ![id].status = "completed", ![id].completedAt = t,
                     ![id].version = @ + 1 ]

\* taskQueue.fail
failTask(ts, id, t) ==
    [ ts EXCEPT ![id].status = "failed", ![id].completedAt = t,
                ![id].version = @ + 1 ]

\* pollOnce after claimNext handed it a task: processTask ended, and the task
\* is completed
CompleteClaimed ==
    \E n \in 1..Len(inflight) :
        /\ inflight[n].pc = "claimed"
        /\ tasks' = completeTask(tasks, inflight[n].got, now)
        /\ inflight' = [ inflight EXCEPT ![n].pc = "returned" ]
        /\ now' = now + 1
        /\ UNCHANGED <<docs, aliases, runs, last, surfaced,
                       normVars, statusVars, eftaVars>>

\* pollOnce after claimNext handed it a task: processTask threw
FailClaimed ==
    \E n \in 1..Len(inflight) :
        /\ inflight[n].pc = "claimed"
        /\ tasks' = failTask(tasks, inflight[n].got, now)
        /\ inflight' = [ inflight EXCEPT ![n].pc = "returned" ]
        /\ now' = now + 1
        /\ UNCHANGED <<docs, aliases, runs, last, surfaced,
                       normVars, statusVars, eftaVars>>

NextQueue ==
    AddTask \/ QueryPending \/ TxGet \/ TxCommit \/ CompleteClaimed \/ FailClaimed

SpecQueue == Init /\ [][NextQueue]_vars

\* the calls that were handed task id
HandedTo(id) == { n \in 1..Len(inflight) : inflight[n].got = id }

\* C30: however claimNext calls of several workers interleave, a task is
\* handed to at most one caller and moves from pending to processing at most
\* once; a caller whose query returned a task that another caller claimed
\* first gets null.
C30_ClaimedOnce ==
    \A id \in 1..Len(tasks) :
        /\ Cardinality(HandedTo(id)) <= 1
        /\ tasks[id].claims <= 1
        /\ Cardinality(HandedTo(id)) = tasks[id].claims
        /\ \A n \in 1..Len(inflight) :
              (inflight[n].ref = id /\ inflight[n].pc = "returned"
                    /\ HandedTo(id) # {} /\ n \notin HandedTo(id))
                 => inflight[n].got = 0

\* two calls queried the same pending task; one was handed it, the other saw
\* its transaction conflict, ran it again and returned null
C30_Witness ==
    \E n, m \in 1..Len(inflight) :
        /\ n # m
        /\ inflight[n].ref = inflight[m].ref
        /\ inflight[n].got = inflight[n].ref /\ inflight[n].ref # 0
        /\ inflight[m].pc = "returned" /\ inflight[m].got = 0
        /\ inflight[m].attempts = 2

=============================================================================
